---- MODULE Spec2Model ----
(***************************************************************************)
(* DataServer: the fragment streaming centre (models.py StreamCentre), the *)
(* per-connection handler streamFragment (main.py) and the file-backed     *)
(* DataStore (database.py).  Every websocket connection is served by its   *)
(* own thread; the registry StreamCentre.connections, the metadata         *)
(* DataStore.system and the file datastore.json are shared and unlocked.   *)
(***************************************************************************)
EXTENDS Integers, Sequences, FiniteSets, TLC

\* ------------------------------------------------------------ universe
Conns == {"c1", "c2", "c3"}          \* websocket connections (one handler thread each)
Frags == {"F1", "F2"}                \* fragment IDs that can exist in DataStore.system
UnknownFrag == "F9"                  \* a fragment ID that never exists
IDs == {"i1", "i2", "i3"}            \* connection IDs generateUniqueID can draw
Docs == {"d0", "d1", "d2"}           \* JSON object documents; d0 is {}
None == "None"                       \* Python's None / an absent key
Missing == "<missing>"               \* a key that is absent from a JSON object
NonStr == "<nonstr>"                 \* a JSON value that is not a string
NonObj == "<nonobj>"                 \* a JSON value that is not an object
MaxFrames == 2                       \* inbound frames accepted by serve loops, in total
MaxTotal == 2                        \* StreamCentreMaxConnections of the small deployment
MaxPerFragment == 1                  \* StreamCentreMaxStreamConnections of the small deployment
MaxReads == 1                        \* reads served after MaxFrames frames were handled
GateTicks == 5                       \* the rate gate's 0.5 time units, in tenths
MaxTime == 10                        \* the clock stops here
MaxSent == 3                         \* frames the peers of the timed scenario send, in total

IPOf(c) == IF c = "c2" THEN "ip2" ELSE "ip1"
SecretOf(f) == IF f = "F1" THEN "s1" ELSE "s2"

VARIABLES
  env,          \* os.environ: StreamCentreEnabled, ceilings, APIKey
  system,       \* DataStore.system: fragment ID -> metadata
  file,         \* datastore.json: fragment ID -> document (None: no such key)
  connections,  \* StreamCentre.connections: fragment ID -> ordered dict of entries
  connected,    \* ws.connected of each connection's transport
  pc,           \* position of each connection's handler thread
  exit,         \* how the handler ended
  sent,         \* frames the server has sent on each transport, in order
  closeMsg,     \* message of the close frame sent by ws.close(message=...)
  fragID,       \* handler local fragID
  connID,       \* handler local connID
  wdata,        \* update["data"] of the write action in progress
  snap,         \* writeFragment's local store (the file as last read)
  pushKeys,     \* push's dict iterator: the keys of the group it iterates
  pushIdx,      \* push's dict iterator: entries passed so far
  nframes,      \* inbound frames accepted so far
  client,       \* each peer's Stream object: its connection, what it has read, its call
  parsed,       \* the buffer last given to StreamMessage and what came of it
  requests,     \* each HTTP API call: its position, its fragment and data, its answer
  systemLock,   \* Universal.systemLock
  admin,        \* the admin request being served, and the outcome of the last one
  expected,     \* history: data of the last writeFragment(F, data) call that returned
  targets,      \* history: sessions registered under F and connected when c's write was accepted
  got,          \* history: the transports c's last push sent its frame to, in order
  pend,         \* history: how c's last push ended (None: none yet, or still running)
  now,          \* the clock Universal.utcNow() reads, in tenths of a time unit
  lastRecv,     \* lastUpdateReceived of each handler
  inbox,        \* frames the peer has sent that the handler has not yet received
  rlog          \* history: per handler, the frames it received: sent at, read at, processed

vars == <<env, system, file, connections, connected, pc, exit, sent, closeMsg,
          fragID, connID, wdata, snap, pushKeys, pushIdx, nframes,
          expected, targets, got, pend, now, lastRecv, inbox, rlog, admin, client, parsed, requests, systemLock>>

locals == <<fragID, connID, wdata, snap, pushKeys, pushIdx>>
history == <<expected, targets, got, pend>>
timing == <<now, lastRecv, inbox, rlog>>
elsewhere == <<client, parsed, requests, systemLock>>

\* ------------------------------------------------------------ Encryption
encodeToSHA256(s) == <<"sha256", s>>
\* A verification that accepts every secret.
verifyAnySecret(s, hash) == TRUE
verifySHA256(s, hash) == hash = encodeToSHA256(s)

\* ------------------------------------------------------------ MessageWriter
normal(msg) == [message |-> msg]
error(err) == [error |-> err]
successEvent(msg) == [event |-> "success", message |-> msg]
writeEvent(data) == [event |-> "write", data |-> data]
readEvent(data) == [event |-> "read", data |-> data]

ConnectedMsg(f) ==
  IF f = "F1" THEN "Connected to fragment ID 'F1' stream successfully."
  ELSE "Connected to fragment ID 'F2' stream successfully."

\* ------------------------------------------------------------ StreamCentre
checkPermissionGranted == TRUE
checkPermission == env.StreamCentreEnabled = "True"
maxConnections == env.StreamCentreMaxConnections
maxStreamConnections == env.StreamCentreMaxStreamConnections

KeysOf(g) == {g[i].id : i \in DOMAIN g}
KeySeq(g) == [i \in DOMAIN g |-> g[i].id]
WsOf(g, id) == g[CHOOSE i \in DOMAIN g : g[i].id = id].ws
Registered(conns) == UNION {{conns[f][i].ws : i \in DOMAIN conns[f]} : f \in DOMAIN conns}
Entries(conns) == UNION {{<<f, conns[f][i].id>> : i \in DOMAIN conns[f]} : f \in DOMAIN conns}

\* addConnection, lines 304-305: the group is created when missing.
EnsureGroup(conns, f) ==
  IF f \in DOMAIN conns THEN conns
  ELSE [h \in DOMAIN conns \cup {f} |-> IF h = f THEN <<>> ELSE conns[h]]

\* addConnection, line 308: dict assignment (an existing key keeps its place).
InsertEntry(g, id, ws) ==
  IF id \in KeysOf(g)
  THEN [i \in DOMAIN g |-> IF g[i].id = id THEN [id |-> id, ws |-> ws] ELSE g[i]]
  ELSE Append(g, [id |-> id, ws |-> ws])

\* An unregister that tests the fragment's group only, not the connection ID.
removeConnectionUnchecked(conns, f, id) ==
  IF f \in DOMAIN conns
  THEN LET g == SelectSeq(conns[f], LAMBDA e : e.id # id)
       IN [ret |-> TRUE,
           conns |-> IF g = <<>> THEN [h \in DOMAIN conns \ {f} |-> conns[h]]
                     ELSE [conns EXCEPT ![f] = g]]
  ELSE [ret |-> FALSE, conns |-> conns]

\* An unregister that leaves the emptied group in place.
removeConnectionKeepGroup(conns, f, id) ==
  IF f \in DOMAIN conns /\ id \in KeysOf(conns[f])
  THEN [ret |-> TRUE,
        conns |-> [conns EXCEPT ![f] = SelectSeq(conns[f], LAMBDA e : e.id # id)]]
  ELSE [ret |-> FALSE, conns |-> conns]

removeConnection(conns, f, id) ==
  IF f \in DOMAIN conns /\ id \in KeysOf(conns[f])
  THEN LET g == SelectSeq(conns[f], LAMBDA e : e.id # id)
       IN [ret |-> TRUE,
           conns |-> IF g = <<>> THEN [h \in DOMAIN conns \ {f} |-> conns[h]]
                     ELSE [conns EXCEPT ![f] = g]]
  ELSE [ret |-> FALSE, conns |-> conns]

RECURSIVE ReapEntries(_, _, _)
ReapEntries(conns, todo, conn) ==
  IF todo = {} THEN conns
  ELSE LET p == CHOOSE p \in todo : TRUE
           dead == ~conn[WsOf(conns[p[1]], p[2])]
       IN ReapEntries(IF dead THEN removeConnection(conns, p[1], p[2]).conns ELSE conns,
                      todo \ {p}, conn)

clearClosedConnections(conns, conn) == ReapEntries(conns, Entries(conns), conn)

\* A lookup that answers with the group of some fragment, not of the one asked.
getConnectionsOfAny(conns, f) ==
  IF DOMAIN conns = {} THEN <<>> ELSE conns[CHOOSE h \in DOMAIN conns : h # f \/ DOMAIN conns = {f}]
getConnections(conns, f) == IF f \in DOMAIN conns THEN conns[f] ELSE <<>>

RECURSIVE SumLen(_, _)
SumLen(conns, fs) ==
  IF fs = {} THEN 0
  ELSE LET f == CHOOSE f \in fs : TRUE IN Len(conns[f]) + SumLen(conns, fs \ {f})

getConnectionsCount(conns) == SumLen(conns, DOMAIN conns)

\* close(fragmentID, connectionID): the three modes; a transport that is already
\* closed makes connection.close() raise, which the except clause turns into False.
\* A close that terminates the transport and leaves the entry in place.
closeKeepEntry(conns0, conn, f, id) ==
  LET conns == clearClosedConnections(conns0, conn)
  IN IF f # None /\ id # None /\ f \in DOMAIN conns /\ id \in KeysOf(conns[f])
     THEN [ret |-> TRUE, conns |-> conns, closed |-> {WsOf(conns[f], id)}]
     ELSE [ret |-> FALSE, conns |-> conns, closed |-> {}]

\* A close that, given both IDs, closes the whole group of the fragment.
closeGroupOf(conns0, conn, f, id) ==
  LET conns == clearClosedConnections(conns0, conn)
  IN IF f # None /\ f \in DOMAIN conns /\ (id = None \/ id \in KeysOf(conns[f]))
     THEN [ret |-> TRUE,
           conns |-> [h \in DOMAIN conns \ {f} |-> conns[h]],
           closed |-> {conns[f][i].ws : i \in DOMAIN conns[f]}]
     ELSE [ret |-> FALSE, conns |-> conns, closed |-> {}]

close(conns0, conn, f, id) ==
  LET conns == clearClosedConnections(conns0, conn)
      hit == IF f # None
             THEN (IF f \in DOMAIN conns /\ id \in KeysOf(conns[f]) THEN {f} ELSE {})
             ELSE {h \in DOMAIN conns : id \in KeysOf(conns[h])}
  IN IF f # None /\ id = None
     THEN IF f \in DOMAIN conns
          THEN [ret |-> TRUE,
                conns |-> [h \in DOMAIN conns \ {f} |-> conns[h]],
                closed |-> {conns[f][i].ws : i \in DOMAIN conns[f]}]
          ELSE [ret |-> FALSE, conns |-> conns, closed |-> {}]
     ELSE IF hit # {}
          THEN LET h == CHOOSE h \in hit : TRUE
               IN [ret |-> TRUE,
                   conns |-> removeConnection(conns, h, id).conns,
                   closed |-> {WsOf(conns[h], id)}]
          ELSE [ret |-> FALSE, conns |-> conns, closed |-> {}]

shutdown(conns0, conn) ==
  LET conns == clearClosedConnections(conns0, conn)
  IN [conns |-> [h \in {} |-> <<>>], closed |-> Registered(conns)]

\* ------------------------------------------------------------ initial state
NoSnap == [f \in Frags |-> None]
Meta(f, approved) ==
  [secret |-> encodeToSHA256(SecretOf(f)), approved |-> approved,
   originalIP |-> "ip1", knownIPs |-> {"ip1"}, lastUpdate |-> None]

\* No admin request is being served; op(f, id) was the last one, it closed
\* the transports ws and StreamCentre.close returned ret.
AdminIdle(op, f, id, ws, ret) ==
  [pc |-> "idle", op |-> op, f |-> f, id |-> id, ws |-> ws, keys |-> <<>>, idx |-> 0,
   ret |-> ret, groups |-> {}, before |-> {}]

\* The /api/requestFragment calls of the scenario and where they come from.
Reqs == {"r1", "r2", "r3"}
ReqIP(r) == IF r = "r3" THEN "ip2" ELSE "ip1"
NoRequest == [pc |-> "idle", id |-> None, data |-> None, code |-> 0]

\* A Stream object before connect(): no connection, nothing read, no call.
NoReturn == [ok |-> FALSE, type |-> None, message |-> None, data |-> None]
NoStream == [conn |-> FALSE, rd |-> 0, call |-> None, at |-> None, arg |-> None,
             last |-> None, ret |-> NoReturn, calls |-> 0]
NothingParsed == [src |-> None, arg |-> None, obj |-> <<>>, buf |-> <<>>, done |-> TRUE]

\* The process starts with nothing registered and no handler running.
InitHandlers ==
  /\ connections = [h \in {} |-> <<>>]
  /\ connected = [c \in Conns |-> FALSE]
  /\ pc = [c \in Conns |-> "idle"]
  /\ exit = [c \in Conns |-> None]
  /\ sent = [c \in Conns |-> <<>>]
  /\ closeMsg = [c \in Conns |-> None]
  /\ fragID = [c \in Conns |-> None]
  /\ connID = [c \in Conns |-> None]
  /\ wdata = [c \in Conns |-> None]
  /\ snap = [c \in Conns |-> NoSnap]
  /\ pushKeys = [c \in Conns |-> <<>>]
  /\ pushIdx = [c \in Conns |-> 0]
  /\ nframes = 0
  /\ expected = [f \in Frags |-> None]
  /\ targets = [c \in Conns |-> {}]
  /\ got = [c \in Conns |-> <<>>]
  /\ pend = [c \in Conns |-> None]
  /\ now = 0
  /\ lastRecv = [c \in Conns |-> 0]
  /\ inbox = [c \in Conns |-> <<>>]
  /\ rlog = [c \in Conns |-> <<>>]
  /\ admin = AdminIdle(None, None, None, {}, FALSE)
  /\ client = [c \in Conns |-> NoStream]
  /\ requests = [r \in Reqs |-> NoRequest]
  /\ systemLock = FALSE

InitProcess == InitHandlers /\ parsed = NothingParsed

\* ------------------------------------------------------------ handler exits
\* The handler of c ends: flask_sock closes the transport after a return and
\* on ConnectionClosed; any other exception ends the request and its socket.
Leave(c, how) ==
  /\ pc' = [pc EXCEPT ![c] = "done"]
  /\ exit' = [exit EXCEPT ![c] = how]
  /\ fragID' = [fragID EXCEPT ![c] = None]
  /\ connID' = [connID EXCEPT ![c] = None]
  /\ wdata' = [wdata EXCEPT ![c] = None]
  /\ snap' = [snap EXCEPT ![c] = NoSnap]
  /\ pushKeys' = [pushKeys EXCEPT ![c] = <<>>]
  /\ pushIdx' = [pushIdx EXCEPT ![c] = 0]
  /\ targets' = [targets EXCEPT ![c] = {}]
  /\ got' = [got EXCEPT ![c] = <<>>]
  /\ pend' = [pend EXCEPT ![c] = None]

\* ------------------------------------------------------------ streamFragment
\* An admission gate that lets the registry grow one past its ceiling.
AdmissionRefusedAbove(conns) ==
  ~checkPermission \/ getConnectionsCount(conns) > maxConnections

\* Lines 300-305: the admission gate.
AdmissionRefused(conns) ==
  ~checkPermission \/ getConnectionsCount(conns) >= maxConnections

\* Lines 300-308: the admission gate and the "authorisation required" frame.
Accept(c) ==
  /\ pc[c] = "idle"
  /\ ~systemLock
  /\ IF AdmissionRefused(connections)
     THEN /\ closeMsg' = [closeMsg EXCEPT ![c] =
                 IF ~checkPermission THEN "Fragment Stream API unavailable."
                 ELSE "Max connections reached."]
          /\ Leave(c, "refused")
          /\ UNCHANGED <<sent, connected>>
     ELSE /\ sent' = [sent EXCEPT ![c] = Append(@,
                 normal("Authorisation required. Please submit credentials. All payloads as JSON."))]
          /\ connected' = [connected EXCEPT ![c] = TRUE]
          /\ pc' = [pc EXCEPT ![c] = "auth"]
          /\ UNCHANGED <<exit, closeMsg, locals, targets, got, pend>>
  /\ UNCHANGED <<env, system, file, connections, nframes, expected>>
  /\ UNCHANGED <<timing, admin, elsewhere>>

\* What ws.receive(timeout=3) can return, after json.loads: nothing, text
\* that is not JSON, a JSON scalar, a JSON array or string, or an object; of an
\* object its "apiKey", "fragmentID" and "secret".
Creds(a, f, s) == [k |-> "object", apiKey |-> a, fragmentID |-> f, secret |-> s]
AuthInputs ==
  {[k |-> kk, apiKey |-> Missing, fragmentID |-> Missing, secret |-> Missing] :
      kk \in {"none", "unparsable", "scalar", "nonobject"}}
  \cup {Creds("K", f, s) : f \in Frags \cup {UnknownFrag}, s \in {"s1", "s2"}}
  \cup {Creds(a, "F1", "s1") : a \in {"wrong", Missing, NonStr}}
  \cup {Creds("K", f, "s1") : f \in {Missing, NonStr}}
  \cup {Creds("K", "F1", s) : s \in {Missing, NonStr}}

\* A per-fragment test that lets a group grow one past its ceiling.
FragmentFullAbove(conns, f) == Len(getConnections(conns, f)) > maxStreamConnections

\* Line 343: the per-fragment ceiling.
FragmentFull(conns, f) == Len(getConnections(conns, f)) >= maxStreamConnections

\* Lines 309-346: the verdict on the credentials frame.
AuthVerdict(in, sys, conns) ==
  IF in.k = "none" THEN "timeout"
  ELSE IF in.k # "object" THEN "invalid"
  ELSE IF \E v \in {in.apiKey, in.fragmentID, in.secret} : v \in {Missing, NonStr} THEN "invalid"
  ELSE IF env.APIKey # None /\ in.apiKey # env.APIKey THEN "denied"
  ELSE IF in.fragmentID \notin DOMAIN sys THEN "notfound"
  ELSE IF ~verifySHA256(in.secret, sys[in.fragmentID].secret) THEN "denied"
  ELSE IF FragmentFull(conns, in.fragmentID) THEN "full"
  ELSE "ok"

AuthError(v) ==
  CASE v = "timeout" -> "Authorisation timeout."
    [] v = "invalid" -> "Invalid payload. Connection terminated."
    [] v = "denied" -> "Authorisation failed."
    [] v = "notfound" -> "Fragment not found. Connection terminated."
    [] OTHER -> "Max connections for this fragment stream has been reached."

AuthClose(v) ==
  CASE v = "timeout" -> "Authorisation timeout."
    [] v = "full" -> "Max connections for fragment stream reached."
    [] OTHER -> None

\* Lines 309-348 on the credentials frame in: answer, and either end or go on
\* to register.
Authorise(c, in) ==
  /\ pc[c] = "auth"
  /\ connected[c]
  /\ LET v == AuthVerdict(in, system, connections) IN
     IF v = "ok"
     THEN /\ sent' = [sent EXCEPT ![c] = Append(@, successEvent(ConnectedMsg(in.fragmentID)))]
          /\ fragID' = [fragID EXCEPT ![c] = in.fragmentID]
          /\ pc' = [pc EXCEPT ![c] = "add1"]
          /\ UNCHANGED <<exit, closeMsg, connected, connID, wdata, snap, pushKeys, pushIdx,
                         targets, got, pend>>
     ELSE /\ sent' = [sent EXCEPT ![c] = Append(@, error(AuthError(v)))]
          /\ closeMsg' = [closeMsg EXCEPT ![c] = AuthClose(v)]
          /\ connected' = [connected EXCEPT ![c] = FALSE]
          /\ Leave(c, IF v = "full" THEN "fragfull" ELSE "authfail")
  /\ UNCHANGED <<env, system, file, connections, nframes, expected>>

AuthWith(c, in) ==
  /\ Authorise(c, in)
  /\ UNCHANGED <<timing, admin, elsewhere>>

\* Line 309 on a transport that is gone: receive raises ConnectionClosed.
AuthDropped(c) ==
  /\ pc[c] = "auth"
  /\ ~connected[c]
  /\ Leave(c, "dropped")
  /\ UNCHANGED <<env, system, file, connections, nframes, expected, sent, closeMsg, connected>>
  /\ UNCHANGED <<timing, admin, elsewhere>>

Auth(c, inputs) ==
  \/ AuthDropped(c)
  \/ \E in \in inputs : AuthWith(c, in)

\* addConnection lines 304-307: create the group when missing, draw an ID that
\* is not among the group's keys (pool: what the random draw can give).
Add1(c, pool) ==
  /\ pc[c] = "add1"
  /\ LET conns == EnsureGroup(connections, fragID[c]) IN
     /\ connections' = conns
     /\ \E id \in pool \ KeysOf(conns[fragID[c]]) : connID' = [connID EXCEPT ![c] = id]
  /\ pc' = [pc EXCEPT ![c] = "add2"]
  /\ UNCHANGED <<env, system, file, connected, exit, sent, closeMsg, fragID, wdata,
                 snap, pushKeys, pushIdx, nframes, history>>
  /\ UNCHANGED <<timing, admin, elsewhere>>

\* addConnection lines 308-315: store the entry (KeyError when the group is
\* gone); then main.py 351 reads the clock.
Add2(c) ==
  /\ pc[c] = "add2"
  /\ IF fragID[c] \in DOMAIN connections
     THEN /\ connections' = [connections EXCEPT ![fragID[c]] = InsertEntry(@, connID[c], c)]
          /\ pc' = [pc EXCEPT ![c] = "active"]
          /\ lastRecv' = [lastRecv EXCEPT ![c] = now]
          /\ UNCHANGED <<exit, connected, locals, targets, got, pend>>
     ELSE /\ connected' = [connected EXCEPT ![c] = FALSE]
          /\ Leave(c, "crash")
          /\ UNCHANGED <<connections, lastRecv>>
  /\ UNCHANGED <<env, system, file, sent, closeMsg, nframes, expected, now, inbox, rlog, admin, elsewhere>>

\* Frames a client can send on an Active session, after json.loads: kind, the
\* value of "action" and of "data".  container: a JSON array or string without
\* "action" in it; containerWithAction: one with; scalar: number, boolean, null.
ActiveInputs ==
  {[k |-> kk, action |-> Missing, data |-> Missing] :
      kk \in {"unparsable", "scalar", "container", "containerWithAction"}}
  \cup {[k |-> "object", action |-> a, data |-> d] :
      a \in {Missing, "write", "read", "close", "ping"},
      d \in {Missing, NonObj} \cup Docs}

\* Lines 361-397: what the serve loop does with an accepted frame.
Dispatch(in) ==
  IF in.k = "unparsable" THEN "unparsable"
  ELSE IF in.k \in {"scalar", "containerWithAction"} THEN "typeerror"
  ELSE IF in.k = "container" \/ in.action = Missing THEN "unexpected"
  ELSE IF in.action = "write" /\ in.data \in Docs THEN "write"
  ELSE IF in.action = "read" THEN "read"
  ELSE IF in.action = "close" THEN "close"
  ELSE "invalid"

readFragment(store, id) == store[id]

Reply(c, frame) ==
  /\ sent' = [sent EXCEPT ![c] = Append(@, frame)]
  /\ UNCHANGED <<pc, exit, connected, closeMsg, locals, connections, targets, got, pend>>

GroupLive(conns, conn, f) ==
  {w \in Conns : \E i \in DOMAIN getConnections(conns, f) :
       getConnections(conns, f)[i].ws = w /\ conn[w]}

\* Lines 361-397: the serve loop handles the accepted frame in.
Serve(c, in) ==
  /\ pc[c] = "active"
  /\ connected[c]
  /\ \/ nframes < MaxFrames
     \/ Dispatch(in) = "read" /\ nframes < MaxFrames + MaxReads
  /\ nframes' = nframes + 1
  /\ LET d == Dispatch(in) IN
     CASE d = "unparsable" -> Reply(c, error("Payload unparsable. Please try again."))
       [] d = "unexpected" -> Reply(c, error("Unexpected payload. Please try again."))
       [] d = "invalid" -> Reply(c, error("Invalid action."))
       [] d = "read" -> Reply(c, readEvent(readFragment(file, fragID[c])))
       [] d = "typeerror" ->
            /\ connected' = [connected EXCEPT ![c] = FALSE]
            /\ Leave(c, "crash")
            /\ UNCHANGED <<sent, closeMsg, connections>>
       [] d = "write" ->
            /\ wdata' = [wdata EXCEPT ![c] = in.data]
            /\ pc' = [pc EXCEPT ![c] = "wRead"]
            /\ targets' = [targets EXCEPT ![c] = GroupLive(connections, connected, fragID[c])]
            /\ got' = [got EXCEPT ![c] = <<>>]
            /\ pend' = [pend EXCEPT ![c] = None]
            /\ UNCHANGED <<sent, exit, connected, closeMsg, fragID, connID, snap,
                           pushKeys, pushIdx, connections>>
       [] d = "close" ->
            LET r == close(connections, connected, fragID[c], connID[c]) IN
            /\ connections' = r.conns
            /\ connected' = [w \in Conns |-> connected[w] /\ w \notin r.closed /\ w # c]
            /\ closeMsg' = [w \in Conns |->
                  IF w \in r.closed THEN "This connection was closed." ELSE closeMsg[w]]
            /\ Leave(c, "closed")
            /\ UNCHANGED sent
  /\ UNCHANGED <<env, system, file, expected>>

\* Lines 353-397: one turn of the serve loop on a frame in that passes the
\* rate gate.
ReceiveWith(c, in) ==
  /\ Serve(c, in)
  /\ UNCHANGED <<timing, admin, elsewhere>>

\* Line 354 on a transport that is gone: receive raises ConnectionClosed and the
\* handler ends; nothing unregisters the session.
ReceiveDropped(c) ==
  /\ pc[c] = "active"
  /\ ~connected[c]
  /\ Leave(c, "dropped")
  /\ UNCHANGED <<env, system, file, connections, nframes, expected, sent, closeMsg, connected>>
  /\ UNCHANGED <<timing, admin, elsewhere>>

Receive(c, inputs) ==
  \/ ReceiveDropped(c)
  \/ \E in \in inputs : ReceiveWith(c, in)

\* A rate gate that stays shut at exactly 0.5 time units.
GateOpenLate(t, last) == t - last > GateTicks

\* Lines 355-359: a frame passes the rate gate unless the clock read after the
\* receive is less than 0.5 after lastUpdateReceived.
GateOpen(t, last) == ~(t - last < GateTicks)

\* Time passes. A handler blocked in ws.receive() (line 354) is woken by an
\* arriving frame and reads it before the clock's next tenth; a frame waits
\* longer only while its handler is busy with an earlier one.
Tick ==
  /\ now < MaxTime
  /\ \A c \in Conns : ~(pc[c] = "active" /\ connected[c] /\ inbox[c] # <<>>)
  /\ now' = now + 1
  /\ UNCHANGED <<env, system, file, connections, connected, pc, exit, sent, closeMsg,
                 locals, nframes, history, lastRecv, inbox, rlog, admin, elsewhere>>

FramesSent == Len(inbox["c1"]) + Len(inbox["c2"]) + Len(inbox["c3"])
                + Len(rlog["c1"]) + Len(rlog["c2"]) + Len(rlog["c3"])

\* The peer of an activated session sends a frame; it waits in the transport's
\* input buffer until the handler's next ws.receive().
ClientSend(c, in) ==
  /\ pc[c] \notin {"idle", "auth", "add1", "add2", "done"}
  /\ connected[c]
  /\ FramesSent < MaxSent
  /\ inbox' = [inbox EXCEPT ![c] = Append(@, [frame |-> in, at |-> now])]
  /\ UNCHANGED <<env, system, file, connections, connected, pc, exit, sent, closeMsg,
                 locals, nframes, history, now, lastRecv, rlog, admin, elsewhere>>

\* Lines 354-397: ws.receive() returns the oldest waiting frame; the clock is
\* read; the frame is dropped (continue) or lastUpdateReceived is set and the
\* frame handled.
ReceiveTimed(c) ==
  /\ pc[c] = "active"
  /\ connected[c]
  /\ inbox[c] # <<>>
  /\ inbox' = [inbox EXCEPT ![c] = Tail(@)]
  /\ LET m == Head(inbox[c]) IN
     IF GateOpen(now, lastRecv[c])
     THEN /\ lastRecv' = [lastRecv EXCEPT ![c] = now]
          /\ rlog' = [rlog EXCEPT ![c] = Append(@, [at |-> m.at, read |-> now, ok |-> TRUE])]
          /\ Serve(c, m.frame)
     ELSE /\ rlog' = [rlog EXCEPT ![c] = Append(@, [at |-> m.at, read |-> now, ok |-> FALSE])]
          /\ UNCHANGED <<env, system, file, connections, connected, pc, exit, sent,
                         closeMsg, locals, nframes, history, lastRecv>>
  /\ UNCHANGED <<now, admin, elsewhere>>

\* writeFragment lines 29-31: the whole file is loaded.
WRead(c) ==
  /\ pc[c] = "wRead"
  /\ snap' = [snap EXCEPT ![c] = file]
  /\ pc' = [pc EXCEPT ![c] = "wWrite"]
  /\ UNCHANGED <<env, system, file, connections, connected, exit, sent, closeMsg,
                 fragID, connID, wdata, pushKeys, pushIdx, nframes, history>>
  /\ UNCHANGED <<timing, admin, elsewhere>>

\* writeFragment lines 33-38, then main.py 377-379: the loaded store with this
\* fragment replaced is written back; the metadata is updated in memory
\* (KeyError when the fragment has been deleted).
WWrite(c) ==
  /\ pc[c] = "wWrite"
  /\ file' = [snap[c] EXCEPT ![fragID[c]] = wdata[c]]
  /\ expected' = [expected EXCEPT ![fragID[c]] = wdata[c]]
  /\ IF fragID[c] \in DOMAIN system
     THEN /\ system' = [system EXCEPT ![fragID[c]] =
                 [@ EXCEPT !.lastUpdate = "now", !.knownIPs = @ \cup {IPOf(c)}]]
          /\ pc' = [pc EXCEPT ![c] = "mRead"]
          /\ snap' = [snap EXCEPT ![c] = NoSnap]
          /\ UNCHANGED <<exit, connected, fragID, connID, wdata, pushKeys, pushIdx,
                         targets, got, pend>>
     ELSE /\ connected' = [connected EXCEPT ![c] = FALSE]
          /\ Leave(c, "crash")
          /\ UNCHANGED system
  /\ UNCHANGED <<env, connections, sent, closeMsg, nframes>>
  /\ UNCHANGED <<timing, admin, elsewhere>>

\* writeSystemMetadata -> writeFragment("system", ...): load the file again.
MRead(c) ==
  /\ pc[c] = "mRead"
  /\ snap' = [snap EXCEPT ![c] = file]
  /\ pc' = [pc EXCEPT ![c] = "mWrite"]
  /\ UNCHANGED <<env, system, file, connections, connected, exit, sent, closeMsg,
                 fragID, connID, wdata, pushKeys, pushIdx, nframes, history>>
  /\ UNCHANGED <<timing, admin, elsewhere>>

\* ... and write it back with the "system" key replaced.
MWrite(c) ==
  /\ pc[c] = "mWrite"
  /\ file' = snap[c]
  /\ snap' = [snap EXCEPT ![c] = NoSnap]
  /\ pc' = [pc EXCEPT ![c] = "push"]
  /\ UNCHANGED <<env, system, connections, connected, exit, sent, closeMsg,
                 fragID, connID, wdata, pushKeys, pushIdx, nframes, history>>
  /\ UNCHANGED <<timing, admin, elsewhere>>

\* push returns (its result is not used, line 384) and the loop goes on.
BackToLoop(c, how) ==
  /\ pc' = [pc EXCEPT ![c] = "active"]
  /\ wdata' = [wdata EXCEPT ![c] = None]
  /\ pushKeys' = [pushKeys EXCEPT ![c] = <<>>]
  /\ pushIdx' = [pushIdx EXCEPT ![c] = 0]
  /\ pend' = [pend EXCEPT ![c] = how]

\* push lines 419-422: reap, then look the fragment's group up.
PushStart(c) ==
  /\ pc[c] = "push"
  /\ LET conns == clearClosedConnections(connections, connected) IN
     /\ connections' = conns
     /\ IF fragID[c] \in DOMAIN conns
        THEN /\ pc' = [pc EXCEPT ![c] = "pushSend"]
             /\ UNCHANGED <<wdata, pushKeys, pushIdx, pend>>
        ELSE BackToLoop(c, "ok")
  /\ UNCHANGED <<env, system, file, connected, exit, sent, closeMsg, fragID, connID,
                 snap, nframes, expected, targets, got>>
  /\ UNCHANGED <<timing, admin, elsewhere>>

\* The keys the dict iterator of push walks: taken when the loop is entered
\* (line 423, pushIdx = 0), kept afterwards.
IterKeys(c, g) == IF pushIdx[c] = 0 THEN KeySeq(g) ELSE pushKeys[c]

\* push lines 423-428: one turn of the loop over the live dict, up to and
\* including its send.  Entering the loop raises KeyError when the group is
\* gone, the iterator raises RuntimeError when the dict changed since the loop
\* was entered, send raises ConnectionClosed on a closed transport; each ends
\* push (except, line 426).  The end of the loop is taken with the last send.
PushSend(c) ==
  /\ pc[c] = "pushSend"
  /\ LET g == getConnections(connections, fragID[c])
         i == pushIdx[c] + 1
     IN
     IF g = <<>> \/ KeySeq(g) # IterKeys(c, g)
     THEN /\ BackToLoop(c, "changed")
          /\ UNCHANGED <<sent, got>>
     ELSE IF ~connected[g[i].ws]
     THEN /\ BackToLoop(c, "sendfail")
          /\ UNCHANGED <<sent, got>>
     ELSE /\ sent' = [sent EXCEPT ![g[i].ws] = Append(@, writeEvent(wdata[c]))]
          /\ got' = [got EXCEPT ![c] = Append(@, g[i].ws)]
          /\ IF i = Len(g)
             THEN BackToLoop(c, "ok")
             ELSE /\ pushIdx' = [pushIdx EXCEPT ![c] = i]
                  /\ pushKeys' = [pushKeys EXCEPT ![c] = KeySeq(g)]
                  /\ UNCHANGED <<pc, wdata, pend>>
  /\ UNCHANGED <<env, system, file, connections, connected, exit, closeMsg, fragID,
                 connID, snap, nframes, expected, targets>>
  /\ UNCHANGED <<timing, admin, elsewhere>>

\* push lines 423-425, first half of a turn: the iterator yields the next
\* connection ID and connection.send(data) is entered.  Entering the loop
\* raises KeyError when the group is gone, the iterator raises RuntimeError
\* when the dict changed since the loop was entered (except, line 426).
PushNext(c) ==
  /\ pc[c] = "pushSend"
  /\ LET g == getConnections(connections, fragID[c]) IN
     IF g = <<>> \/ KeySeq(g) # IterKeys(c, g)
     THEN BackToLoop(c, "changed")
     ELSE /\ pc' = [pc EXCEPT ![c] = "pushSending"]
          /\ pushIdx' = [pushIdx EXCEPT ![c] = @ + 1]
          /\ pushKeys' = [pushKeys EXCEPT ![c] = KeySeq(g)]
          /\ UNCHANGED <<wdata, pend>>
  /\ UNCHANGED <<env, system, file, connections, connected, exit, sent, closeMsg, fragID,
                 connID, snap, nframes, expected, targets, got>>
  /\ UNCHANGED <<timing, admin, elsewhere>>

\* The connection ID whose transport handler c is sending to.
SendingTo(c) == pushKeys[c][pushIdx[c]]

\* push line 425, second half of a turn: connection.send(data) writes the
\* frame and returns, or raises ConnectionClosed on a closed transport
\* (except, line 426).  The end of the loop is taken with the last send.
PushDone(c) ==
  /\ pc[c] = "pushSending"
  /\ LET g == getConnections(connections, fragID[c]) IN
     IF SendingTo(c) \notin KeysOf(g) \/ ~connected[WsOf(g, SendingTo(c))]
     THEN /\ BackToLoop(c, "sendfail")
          /\ UNCHANGED <<sent, got>>
     ELSE LET w == WsOf(g, SendingTo(c)) IN
          /\ sent' = [sent EXCEPT ![w] = Append(@, writeEvent(wdata[c]))]
          /\ got' = [got EXCEPT ![c] = Append(@, w)]
          /\ IF pushIdx[c] = Len(pushKeys[c])
             THEN BackToLoop(c, "ok")
             ELSE /\ pc' = [pc EXCEPT ![c] = "pushSend"]
                  /\ UNCHANGED <<wdata, pushKeys, pushIdx, pend>>
  /\ UNCHANGED <<env, system, file, connections, connected, exit, closeMsg, fragID,
                 connID, snap, nframes, expected, targets>>
  /\ UNCHANGED <<timing, admin, elsewhere>>

\* ------------------------------------------------------------ environment
\* The peer goes away or the transport breaks: ws.connected turns False.
ClientDrop(c) ==
  /\ pc[c] \notin {"idle", "done"}
  /\ connected[c]
  /\ connected' = [connected EXCEPT ![c] = FALSE]
  /\ UNCHANGED <<env, system, file, connections, pc, exit, sent, closeMsg, locals,
                 nframes, history>>
  /\ UNCHANGED <<timing, admin, elsewhere>>

\* /admin/streamCentre/closeConnection, lines 168-183, with the call of
\* StreamCentre.close(fragmentID, connectionID) it makes.
closeConnection(f, id) ==
  /\ admin.pc = "idle"
  /\ f \in DOMAIN system
  /\ f \in DOMAIN connections
  /\ id \in KeysOf(connections[f])
  /\ LET r == close(connections, connected, f, id) IN
     /\ connections' = r.conns
     /\ connected' = [w \in Conns |-> connected[w] /\ w \notin r.closed]
     /\ closeMsg' = [w \in Conns |->
           IF w \in r.closed THEN "This connection was closed." ELSE closeMsg[w]]
     /\ admin' = AdminIdle("closeConnection", f, id, r.closed, r.ret)
  /\ UNCHANGED <<env, system, file, pc, exit, sent, locals, nframes, history, timing, elsewhere>>

\* /admin/streamCentre/closeFragment, lines 154-161, and StreamCentre.close
\* lines 343-358: the reap and the test that the group is there.
closeFragmentStream(f) ==
  /\ admin.pc = "idle"
  /\ f \in DOMAIN system
  /\ f \in DOMAIN connections
  /\ LET conns == clearClosedConnections(connections, connected) IN
     /\ connections' = conns
     /\ admin' = IF f \in DOMAIN conns
                 THEN [AdminIdle("closeFragment", f, None, {}, FALSE) EXCEPT !.pc = "closeLoop"]
                 ELSE AdminIdle("closeFragment", f, None, {}, FALSE)
  /\ UNCHANGED <<env, system, file, connected, pc, exit, sent, closeMsg, locals,
                 nframes, history, timing, elsewhere>>

\* StreamCentre.close lines 359-365: one turn of the loop over the live group,
\* up to and including its connection.close(); the end of the loop and the
\* del of the group are taken with the last close.  A KeyError (group gone), a
\* RuntimeError (group changed since the loop was entered) or a
\* ConnectionClosed (transport already closed) ends close with False
\* (lines 376-379).
closeFragmentLoop ==
  /\ admin.pc = "closeLoop"
  /\ LET f == admin.f
         g == getConnections(connections, f)
         i == admin.idx + 1
         keys == IF admin.idx = 0 THEN KeySeq(g) ELSE admin.keys
         dropGroup == [h \in DOMAIN connections \ {f} |-> connections[h]]
     IN
     IF f \notin DOMAIN connections \/ KeySeq(g) # keys
     THEN /\ admin' = AdminIdle("closeFragment", f, None, admin.ws, FALSE)
          /\ UNCHANGED <<connections, connected, closeMsg>>
     ELSE IF g = <<>>
     THEN /\ admin' = AdminIdle("closeFragment", f, None, admin.ws, TRUE)
          /\ connections' = dropGroup
          /\ UNCHANGED <<connected, closeMsg>>
     ELSE IF ~connected[g[i].ws]
     THEN /\ admin' = AdminIdle("closeFragment", f, None, admin.ws, FALSE)
          /\ UNCHANGED <<connections, connected, closeMsg>>
     ELSE /\ connected' = [connected EXCEPT ![g[i].ws] = FALSE]
          /\ closeMsg' = [closeMsg EXCEPT ![g[i].ws] = "This fragment stream was closed."]
          /\ IF i = Len(g)
             THEN /\ admin' = AdminIdle("closeFragment", f, None, admin.ws \cup {g[i].ws}, TRUE)
                  /\ connections' = dropGroup
             ELSE /\ admin' = [admin EXCEPT !.idx = i, !.keys = keys,
                                            !.ws = @ \cup {g[i].ws}]
                  /\ UNCHANGED connections
  /\ UNCHANGED <<env, system, file, pc, exit, sent, locals, nframes, history, timing, elsewhere>>

\* StreamCentre.close(connectionID=id), lines 343 and 366-379: the reap, then
\* the scan of the groups in the registry's order, which the model does not
\* keep: any group that holds the ID may be the first one found.
closeByID(id) ==
  /\ admin.pc = "idle"
  /\ LET conns == clearClosedConnections(connections, connected)
         hits == {h \in DOMAIN conns : id \in KeysOf(conns[h])}
     IN
     IF hits = {}
     THEN /\ connections' = conns
          /\ admin' = AdminIdle("close", None, id, {}, close(connections, connected, None, id).ret)
          /\ UNCHANGED <<connected, closeMsg>>
     ELSE \E h \in hits :
            LET r == close(connections, connected, h, id) IN
            /\ connections' = r.conns
            /\ connected' = [w \in Conns |-> connected[w] /\ w \notin r.closed]
            /\ closeMsg' = [w \in Conns |->
                  IF w \in r.closed THEN "This connection was closed." ELSE closeMsg[w]]
            /\ admin' = AdminIdle("close", None, id, r.closed, r.ret)
  /\ UNCHANGED <<env, system, file, pc, exit, sent, locals, nframes, history, timing, elsewhere>>

\* /admin/streamCentre/shutdown, lines 146-149, by an authorised
\* administrator, and StreamCentre.shutdown lines 383-386: the reap and the
\* copy of the registry's keys.
shutdownStreamCentre ==
  /\ admin.pc = "idle"
  /\ LET conns == clearClosedConnections(connections, connected) IN
     /\ connections' = conns
     /\ admin' = IF DOMAIN conns = {}
                 THEN [AdminIdle("shutdown", None, None, {}, TRUE)
                         EXCEPT !.before = Registered(connections)]
                 ELSE [AdminIdle("shutdown", None, None, {}, FALSE)
                         EXCEPT !.pc = "shutdownLoop", !.groups = DOMAIN conns,
                                !.before = Registered(connections)]
  /\ UNCHANGED <<env, system, file, connected, pc, exit, sent, closeMsg, locals,
                 nframes, history, timing, elsewhere>>

\* StreamCentre.shutdown lines 386-390: one turn of the loops, up to and
\* including its connection.close().  A group is entered with the turn of its
\* first entry (line 387 copies its keys) and deleted with the turn of its last
\* (line 390); the groups are taken in the registry's order, which the model
\* does not keep.  A KeyError (group or entry gone) or a ConnectionClosed
\* (transport already closed) ends shutdown (line 393).
shutdownLoop ==
  /\ admin.pc = "shutdownLoop"
  /\ \E f \in (IF admin.f = None THEN admin.groups ELSE {admin.f}) :
       LET keys == IF admin.f = None THEN KeySeq(getConnections(connections, f))
                   ELSE admin.keys
           left == admin.groups \ {f}
           dropGroup == [h \in DOMAIN connections \ {f} |-> connections[h]]
           abort == [AdminIdle("shutdown", None, None, admin.ws, FALSE)
                       EXCEPT !.before = admin.before]
           next(ws) == IF left = {}
                       THEN [AdminIdle("shutdown", None, None, ws, TRUE)
                               EXCEPT !.before = admin.before]
                       ELSE [admin EXCEPT !.f = None, !.keys = <<>>, !.groups = left,
                                          !.ws = ws]
       IN
       IF f \notin DOMAIN connections
       THEN /\ admin' = abort
            /\ UNCHANGED <<connections, connected, closeMsg>>
       ELSE IF keys = <<>>
       THEN /\ admin' = next(admin.ws)
            /\ connections' = dropGroup
            /\ UNCHANGED <<connected, closeMsg>>
       ELSE IF Head(keys) \notin KeysOf(connections[f])
               \/ ~connected[WsOf(connections[f], Head(keys))]
       THEN /\ admin' = abort
            /\ UNCHANGED <<connections, connected, closeMsg>>
       ELSE LET w == WsOf(connections[f], Head(keys)) IN
            /\ connected' = [connected EXCEPT ![w] = FALSE]
            /\ closeMsg' = [closeMsg EXCEPT ![w] = "Stream centre was shutdown."]
            /\ IF Tail(keys) = <<>>
               THEN /\ admin' = next(admin.ws \cup {w})
                    /\ connections' = dropGroup
               ELSE /\ admin' = [admin EXCEPT !.f = f, !.keys = Tail(keys),
                                              !.groups = left, !.ws = @ \cup {w}]
                    /\ UNCHANGED connections
  /\ UNCHANGED <<env, system, file, pc, exit, sent, locals, nframes, history, timing, elsewhere>>

\* /admin/approveRequest, lines 71-88.
approveRequest(f) ==
  /\ f \in DOMAIN system
  /\ ~system[f].approved
  /\ system' = [system EXCEPT ![f].approved = TRUE]
  /\ file' = [file EXCEPT ![f] = "d0"]
  /\ expected' = [expected EXCEPT ![f] = "d0"]
  /\ UNCHANGED <<env, connections, connected, pc, exit, sent, closeMsg, locals,
                 nframes, targets, got, pend>>
  /\ UNCHANGED <<timing, admin, elsewhere>>

\* ------------------------------------------------------------ specifications
Envs ==
  { [StreamCentreEnabled |-> on, StreamCentreMaxConnections |-> MaxTotal,
     StreamCentreMaxStreamConnections |-> MaxPerFragment, APIKey |-> "K"] :
    on \in {"True", "False"} }

\* A deployment whose ceilings admit every client of the scenario.
Roomy(n) ==
  [StreamCentreEnabled |-> "True", StreamCentreMaxConnections |-> Cardinality(Conns),
   StreamCentreMaxStreamConnections |-> n, APIKey |-> "K"]

IdFor(c) == CASE c = "c1" -> "i1" [] c = "c2" -> "i2" [] OTHER -> "i3"

\* Admission and authentication: three clients that connect, present any
\* credentials frame, and may close or drop; one fragment awaits approval.
CloseInputs == {in \in ActiveInputs : in.k = "object" /\ in.action = "close" /\ in.data = Missing}

Init ==
  /\ env \in Envs
  /\ system = [f \in Frags |-> Meta(f, f = "F1")]
  /\ file = [f \in Frags |-> IF f = "F1" THEN "d0" ELSE None]
  /\ InitProcess

Next ==
  \/ \E c \in Conns : Accept(c)
  \/ \E c \in Conns : Auth(c, AuthInputs)
  \/ \E c \in Conns : Add1(c, IDs)
  \/ \E c \in Conns : Add2(c)
  \/ \E c \in Conns : Receive(c, CloseInputs)
  \/ \E c \in Conns : ClientDrop(c)
  \/ \E f \in Frags : approveRequest(f)

Spec == Init /\ [][Next]_vars

\* Streaming: two clients that authenticate correctly and write.
StreamConns == {"c1", "c2"}
GoodAuth == {in \in AuthInputs : /\ in.k = "object" /\ in.apiKey = "K"
                                  /\ in.fragmentID \in Frags
                                  /\ in.secret = SecretOf(in.fragmentID)}
WriteInputs == {in \in ActiveInputs : in.k = "object" /\ in.action = "write"
                                       /\ in.data \in {"d1", "d2"}}

InitStream ==
  /\ env = Roomy(Cardinality(StreamConns))
  /\ system = [f \in Frags |-> Meta(f, TRUE)]
  /\ file = [f \in Frags |-> "d0"]
  /\ InitProcess

NextStream ==
  \/ \E c \in StreamConns : Accept(c)
  \/ \E c \in StreamConns : Auth(c, GoodAuth)
  \/ \E c \in StreamConns : Add1(c, {IdFor(c)})
  \/ \E c \in StreamConns : Add2(c)
  \/ \E c \in StreamConns : Receive(c, WriteInputs)
  \/ \E c \in StreamConns : WRead(c)
  \/ \E c \in StreamConns : WWrite(c)
  \/ \E c \in StreamConns : MRead(c)
  \/ \E c \in StreamConns : MWrite(c)
  \/ \E c \in StreamConns : PushStart(c)
  \/ \E c \in StreamConns : PushSend(c)
  \/ \E c \in StreamConns : ClientDrop(c)

SpecStream == InitStream /\ [][NextStream]_vars

\* Broadcast: three clients on one fragment whose transports stay connected;
\* any of them writes while the others register.
OneFragAuth == {in \in GoodAuth : in.fragmentID = "F1"}

InitBroadcast ==
  /\ env = Roomy(Cardinality(Conns))
  /\ system = [f \in Frags |-> Meta(f, TRUE)]
  /\ file = [f \in Frags |-> "d0"]
  /\ InitProcess

NextBroadcast ==
  \/ \E c \in Conns : Accept(c)
  \/ \E c \in Conns, in \in OneFragAuth : AuthWith(c, in)
  \/ \E c \in Conns : Add1(c, {IdFor(c)})
  \/ \E c \in Conns : Add2(c)
  \/ \E c \in Conns, in \in WriteInputs : ReceiveWith(c, in)
  \/ \E c \in Conns : WRead(c)
  \/ \E c \in Conns : WWrite(c)
  \/ \E c \in Conns : MRead(c)
  \/ \E c \in Conns : MWrite(c)
  \/ \E c \in Conns : PushStart(c)
  \/ \E c \in Conns : PushSend(c)

SpecBroadcast == InitBroadcast /\ [][NextBroadcast]_vars

\* Rate gate: one client on F1 whose peer sends write and read frames while
\* time passes.
RateInputs == {in \in ActiveInputs : /\ in.k = "object"
                 /\ \/ in.action = "write" /\ in.data = "d1"
                    \/ in.action = "read" /\ in.data = Missing}

NextRate ==
  \/ Accept("c1")
  \/ \E in \in OneFragAuth : AuthWith("c1", in)
  \/ Add1("c1", {IdFor("c1")})
  \/ Add2("c1")
  \/ \E in \in RateInputs : ClientSend("c1", in)
  \/ ReceiveTimed("c1")
  \/ WRead("c1")
  \/ WWrite("c1")
  \/ MRead("c1")
  \/ MWrite("c1")
  \/ PushStart("c1")
  \/ PushSend("c1")
  \/ Tick

SpecRate == InitBroadcast /\ [][NextRate]_vars

\* Serve loop: two clients with good credentials and every shape of frame.
NextServe ==
  \/ \E c \in StreamConns :
        \/ Accept(c)
        \/ \E in \in GoodAuth : AuthWith(c, in)
        \/ Add1(c, {IdFor(c)})
        \/ Add2(c)
        \/ \E in \in ActiveInputs : ReceiveWith(c, in)
        \/ WRead(c)
        \/ WWrite(c)
        \/ MRead(c)
        \/ MWrite(c)
        \/ PushStart(c)
        \/ PushSend(c)

SpecServe == InitStream /\ [][NextServe]_vars

\* Forced closes: three clients on two fragments that register and may
\* drop, and an administrator who closes single connections and whole
\* fragment streams.
NextAdmin ==
  \/ \E c \in Conns :
        \/ Accept(c)
        \/ \E in \in GoodAuth : AuthWith(c, in)
        \/ Add1(c, {IdFor(c)})
        \/ Add2(c)
        \/ ReceiveDropped(c)
        \/ ClientDrop(c)
  \/ \E f \in Frags, id \in IDs : closeConnection(f, id)
  \/ \E f \in Frags : closeFragmentStream(f)
  \/ closeFragmentLoop

SpecAdmin == InitBroadcast /\ [][NextAdmin]_vars

\* Close by connection ID: two clients on two fragments whose connection IDs
\* come from a pool of two, and a caller of StreamCentre.close(connectionID).
ScanIDs == {"i1", "i2"}

NextScan ==
  \/ \E c \in StreamConns :
        \/ Accept(c)
        \/ \E in \in GoodAuth : AuthWith(c, in)
        \/ Add1(c, ScanIDs)
        \/ Add2(c)
        \/ ReceiveDropped(c)
        \/ ClientDrop(c)
  \/ \E id \in ScanIDs \cup {None} : closeByID(id)

SpecScan == InitStream /\ [][NextScan]_vars

\* Shutdown: two clients on two fragments that register and may drop, and an
\* administrator who shuts the stream centre down.
NextShutdown ==
  \/ \E c \in StreamConns :
        \/ Accept(c)
        \/ \E in \in GoodAuth : AuthWith(c, in)
        \/ Add1(c, {IdFor(c)})
        \/ Add2(c)
        \/ ReceiveDropped(c)
        \/ ClientDrop(c)
  \/ shutdownStreamCentre
  \/ shutdownLoop

SpecShutdown == InitStream /\ [][NextShutdown]_vars

\* Sends: two clients on F1 that write, the sends of each broadcast taken in
\* two steps.
SendInputs == {in \in WriteInputs : in.data = "d1"}

NextSends ==
  \E c \in StreamConns :
     \/ Accept(c)
     \/ \E in \in OneFragAuth : AuthWith(c, in)
     \/ Add1(c, {IdFor(c)})
     \/ Add2(c)
     \/ \E in \in SendInputs : ReceiveWith(c, in)
     \/ WRead(c)
     \/ WWrite(c)
     \/ MRead(c)
     \/ MWrite(c)
     \/ PushStart(c)
     \/ PushNext(c)
     \/ PushDone(c)

SpecSends == InitStream /\ [][NextSends]_vars

\* Forced closes and the closed session's own handler: two clients that
\* register and may drop, an administrator who closes connections, fragment
\* streams and the whole centre.  A handler that can take a step of its own
\* is eventually scheduled, and so is the administrator's request.
HandlerStep(c) == Add1(c, {IdFor(c)}) \/ Add2(c) \/ ReceiveDropped(c)

NextForced ==
  \/ \E c \in StreamConns :
        \/ Accept(c)
        \/ \E in \in GoodAuth : AuthWith(c, in)
        \/ HandlerStep(c)
        \/ ClientDrop(c)
  \/ \E f \in Frags, id \in IDs : closeConnection(f, id)
  \/ \E f \in Frags : closeFragmentStream(f)
  \/ closeFragmentLoop
  \/ shutdownStreamCentre
  \/ shutdownLoop

SpecForced ==
  /\ InitStream /\ [][NextForced]_vars
  /\ \A c \in StreamConns : WF_vars(HandlerStep(c))
  /\ WF_vars(closeFragmentLoop)
  /\ WF_vars(shutdownLoop)

\* ------------------------------------------------------------ the codec
\* json.dumps and json.loads.  A dict is a function from its keys; its text
\* is the sequence of its members, each a key and the token of its value.
\* A buffer that is no JSON text makes json.loads raise.
Keys == <<"error", "event", "message", "data">>
NotJSON == << <<"{", <<"str", "">>>> >>
Token(v) == IF v \in Docs THEN <<"obj", v>> ELSE <<"str", v>>
ValueOfTag(t) == t[1]
Value(t) == t[2]
Has(d, k) == k \in DOMAIN d
Members(d) == SelectSeq(Keys, LAMBDA k : Has(d, k))
dumps(d) == [i \in 1..Len(Members(d)) |-> <<Members(d)[i], Token(d[Members(d)[i]])>>]
IsJSON(buffer) == \A i \in DOMAIN buffer : \E j \in DOMAIN Keys : buffer[i][1] = Keys[j]
loads(buffer) ==
  [k \in {buffer[i][1] : i \in DOMAIN buffer} |->
      LET last == CHOOSE i \in DOMAIN buffer :
                     /\ buffer[i][1] = k
                     /\ \A j \in DOMAIN buffer : buffer[j][1] = k => j <= i
      IN  Value(buffer[last][2])]

\* StreamMessage.__init__: the type, message and data read from a frame.
NoMessage == [type |-> None, message |-> None, data |-> None, raised |-> FALSE]
RaisedMessage == [NoMessage EXCEPT !.raised = TRUE]
StreamMessageErrorKept(buffer) ==
  IF ~IsJSON(buffer) THEN RaisedMessage
  ELSE LET data == loads(buffer)
           type1 == IF Has(data, "error") THEN "error"
                    ELSE IF Has(data, "event") THEN data.event
                    ELSE "unknown"
           msg1 == IF Has(data, "error") THEN data.error ELSE None
       IN  [type    |-> IF Has(data, "message") /\ type1 = "unknown"
                        THEN "message" ELSE type1,
            message |-> IF Has(data, "message") /\ ~Has(data, "error")
                        THEN data.message ELSE msg1,
            data    |-> IF Has(data, "data") THEN data.data ELSE None,
            raised  |-> FALSE]
StreamMessage(buffer) ==
  IF ~IsJSON(buffer) THEN RaisedMessage
  ELSE LET data == loads(buffer)
           type1 == IF Has(data, "error") THEN "error"
                    ELSE IF Has(data, "event") THEN data.event
                    ELSE "unknown"
           msg1 == IF Has(data, "error") THEN data.error ELSE None
       IN  [type    |-> IF Has(data, "message") /\ type1 = "unknown"
                        THEN "message" ELSE type1,
            message |-> IF Has(data, "message") THEN data.message ELSE msg1,
            data    |-> IF Has(data, "data") THEN data.data ELSE None,
            raised  |-> FALSE]

\* The frames the parser is tried on: every object over the four keys the
\* parser looks at, a text that is no JSON, and what the server's five
\* producers emit.
Texts == {"m1", "m2"}
ValuesOf(k) ==
  CASE k = "error"   -> {None, "e1", "e2"}
    [] k = "event"   -> {None, "success", "write", "unknown"}
    [] k = "message" -> {None} \cup Texts
    [] k = "data"    -> {None, "d0", "d1"}
Choices == {f \in [{Keys[i] : i \in DOMAIN Keys} -> {None, "e1", "e2", "success", "write",
                                                     "unknown", "m1", "m2", "d0", "d1"}] :
              \A k \in DOMAIN f : f[k] \in ValuesOf(k)}
Dict(f) == [k \in {k \in DOMAIN f : f[k] # None} |-> f[k]]
Producers == {"normal", "error", "successEvent", "writeEvent", "readEvent"}
ArgsOf(kind) == IF kind \in {"writeEvent", "readEvent"} THEN Docs ELSE Texts
Produce(kind, v) ==
  CASE kind = "normal"       -> normal(v)
    [] kind = "error"        -> error(v)
    [] kind = "successEvent" -> successEvent(v)
    [] kind = "writeEvent"   -> writeEvent(v)
    [] kind = "readEvent"    -> readEvent(v)

Given(src, arg, obj, buffer) ==
  [src |-> src, arg |-> arg, obj |-> obj, buf |-> buffer, msg |-> NoMessage, done |-> FALSE]
Inputs ==
  {Given("object", None, Dict(f), dumps(Dict(f))) : f \in Choices}
    \cup {Given("garbage", None, <<>>, NotJSON)}
    \cup UNION {{Given(kind, v, Produce(kind, v), dumps(Produce(kind, v))) : v \in ArgsOf(kind)} :
                  kind \in Producers}

InitCodec ==
  /\ env = Roomy(Cardinality(StreamConns))
  /\ system = [f \in Frags |-> Meta(f, TRUE)]
  /\ file = [f \in Frags |-> "d0"]
  /\ InitHandlers
  /\ parsed \in Inputs

Parse ==
  /\ ~parsed.done
  /\ parsed' = [parsed EXCEPT !.msg = StreamMessage(parsed.buf), !.done = TRUE]
  /\ UNCHANGED <<env, system, file, connections, connected, pc, exit, sent, closeMsg,
                 locals, nframes, history, timing, admin, client, requests, systemLock>>

NextCodec == Parse

SpecCodec == InitCodec /\ [][NextCodec]_vars

\* ------------------------------------------------------------ the client
\* CloudFragment.Stream of client.py, for the peer of connection c.  The
\* frames the server has sent on c's transport are sent[c]; the Stream has
\* taken the first client[c].rd of them.  What the Stream sends waits in
\* inbox[c] for the handler's next ws.receive().
MaxCalls == 1
status(c) == client[c].conn /\ connected[c]
Unread(c) == client[c].rd < Len(sent[c])
NextFrame(c) == StreamMessage(dumps(sent[c][client[c].rd + 1]))

\* receive(timeout), lines 247-260, returns an error string: the Stream has
\* seen the transport closed, or nothing arrives while the handler has
\* nothing of this peer to answer.  A frame that arrived before the close
\* was seen is returned.
ReceiveFails(c) ==
  \/ ~status(c)
  \/ ~Unread(c) /\ pc[c] = "active" /\ inbox[c] = <<>>
ClosePayload == [k |-> "object", action |-> "close", data |-> Missing]

\* disconnect(), lines 262-270, on the Stream object.
disconnectKeepsConn(stream) == stream
disconnect(stream) == [stream EXCEPT !.conn = FALSE]

Returns(stream, ok, m) ==
  [stream EXCEPT !.last = stream.call, !.call = None, !.at = None,
                 !.ret = [ok |-> ok, type |-> m.type, message |-> m.message, data |-> m.data]]

ClientFrame(c, in) == Append(inbox[c], [frame |-> in, at |-> now])
ServerSide == <<env, system, file, connections, pc, exit, sent, closeMsg, locals,
                nframes, history, now, lastRecv, rlog, admin, parsed, requests, systemLock>>

\* connect(), lines 272-280: a Stream that is not connected opens the
\* websocket; the server starts a handler for it.
connect(c) ==
  /\ client[c].call = None
  /\ ~client[c].conn
  /\ pc[c] = "idle"
  /\ client' = [client EXCEPT ![c] = [@ EXCEPT !.conn = TRUE, !.call = "connect",
                                                !.at = "greeting"]]
  /\ UNCHANGED <<ServerSide, connected, inbox>>

\* connect(), lines 282-296: the first frame is taken as the prompt and the
\* credentials are sent; a failed receive disconnects and returns an error.
connectSend(c, in) ==
  /\ client[c].at = "greeting"
  /\ pc[c] # "idle"
  /\ \/ /\ Unread(c)
        /\ client' = [client EXCEPT ![c] = [@ EXCEPT !.rd = @ + 1, !.at = "answer"]]
        /\ inbox' = [inbox EXCEPT ![c] = ClientFrame(c, in)]
        /\ UNCHANGED connected
     \/ /\ ReceiveFails(c)
        /\ client' = [client EXCEPT ![c] = Returns(disconnect(@), FALSE, NoMessage)]
        /\ connected' = [connected EXCEPT ![c] = FALSE]
        /\ UNCHANGED inbox
  /\ UNCHANGED ServerSide

\* connect(), lines 298-312: the next frame is the answer to the
\* credentials; anything but a success event disconnects and returns an
\* error.
connectAnswer(c) ==
  /\ client[c].at = "answer"
  /\ client[c].call = "connect"
  /\ \/ /\ Unread(c)
        /\ LET m == NextFrame(c) IN
           IF m.type = "success"
           THEN /\ client' = [client EXCEPT ![c] = Returns([@ EXCEPT !.rd = @ + 1], TRUE, m)]
                /\ UNCHANGED <<connected, inbox>>
           ELSE /\ client' = [client EXCEPT ![c] =
                      Returns(disconnect([@ EXCEPT !.rd = @ + 1]), FALSE, m)]
                /\ inbox' = [inbox EXCEPT ![c] =
                      IF connected[c] THEN ClientFrame(c, ClosePayload) ELSE @]
                /\ connected' = [connected EXCEPT ![c] = FALSE]
     \/ /\ ReceiveFails(c)
        /\ client' = [client EXCEPT ![c] = Returns(disconnect(@), FALSE, NoMessage)]
        /\ connected' = [connected EXCEPT ![c] = FALSE]
        /\ UNCHANGED inbox
  /\ UNCHANGED ServerSide

\* ping(), write(data), read(): lines 314-321, 332-343, 355-361.  An
\* unhealthy Stream returns an error at once; otherwise the request is sent.
Request(c, call, arg, in) ==
  /\ client[c].call = None
  /\ client[c].conn
  /\ client[c].calls < MaxCalls
  /\ IF status(c)
     THEN /\ client' = [client EXCEPT ![c] = [@ EXCEPT !.call = call, !.arg = arg,
                                                   !.at = "answer", !.calls = @ + 1]]
          /\ inbox' = [inbox EXCEPT ![c] = ClientFrame(c, in)]
     ELSE /\ client' = [client EXCEPT ![c] =
                Returns([@ EXCEPT !.call = call, !.arg = arg, !.calls = @ + 1],
                        FALSE, NoMessage)]
          /\ UNCHANGED inbox
  /\ UNCHANGED <<ServerSide, connected>>

ping(c) == Request(c, "ping", None, [k |-> "object", action |-> "ping", data |-> Missing])
write(c, d) == Request(c, "write", d, [k |-> "object", action |-> "write", data |-> d])
read(c) == Request(c, "read", None, [k |-> "object", action |-> "read", data |-> Missing])

\* Lines 323-330, 345-353, 363-366: the next frame received is the answer.
\* ping() returns True when its type is "success"; write() and read()
\* return it as a StreamMessage.
Answer(c) ==
  /\ client[c].at = "answer"
  /\ client[c].call \in {"ping", "write", "read"}
  /\ \/ /\ Unread(c)
        /\ LET m == NextFrame(c) IN
           client' = [client EXCEPT ![c] =
              Returns([@ EXCEPT !.rd = @ + 1],
                      client[c].call # "ping" \/ m.type = "success", m)]
     \/ /\ ReceiveFails(c)
        /\ client' = [client EXCEPT ![c] = Returns(@, FALSE, NoMessage)]
  /\ UNCHANGED <<ServerSide, connected, inbox>>

\* Line 309 with the credentials the Stream sent.
AuthTimed(c) ==
  /\ inbox[c] # <<>>
  /\ Authorise(c, Head(inbox[c]).frame)
  /\ inbox' = [inbox EXCEPT ![c] = Tail(@)]
  /\ UNCHANGED <<now, lastRecv, rlog, admin, elsewhere>>

\* The peer lets the rate gate's 0.5 time units pass before it goes on.
Pause ==
  /\ now + GateTicks <= MaxTime
  /\ \A c \in Conns : ~(pc[c] = "active" /\ connected[c] /\ inbox[c] # <<>>)
  /\ now' = now + GateTicks
  /\ UNCHANGED <<env, system, file, connections, connected, pc, exit, sent, closeMsg,
                 locals, nframes, history, lastRecv, inbox, rlog, admin, elsewhere>>

\* One Stream, c1, that connects with good credentials and then pings,
\* writes and reads, while another peer of the same fragment writes.
NextClient ==
  \/ connect("c1")
  \/ \E in \in OneFragAuth : connectSend("c1", in)
  \/ connectAnswer("c1")
  \/ ping("c1")
  \/ write("c1", "d1")
  \/ read("c1")
  \/ Answer("c1")
  \/ AuthTimed("c1")
  \/ \E in \in OneFragAuth : AuthWith("c2", in)
  \/ ClientSend("c2", [k |-> "object", action |-> "write", data |-> "d2"])
  \/ \E c \in StreamConns :
        \/ Accept(c)
        \/ Add1(c, {IdFor(c)})
        \/ Add2(c)
        \/ ReceiveTimed(c)
        \/ WRead(c)
        \/ WWrite(c)
        \/ MRead(c)
        \/ MWrite(c)
        \/ PushStart(c)
        \/ PushSend(c)
  \/ Pause

SpecClient == InitStream /\ [][NextClient]_vars

\* One Stream, c1, that connects with any credentials object to a server
\* that may refuse it, while another peer may hold the fragment's only
\* place or drop c1's transport.
Credentials == {in \in AuthInputs : /\ in.k = "object"
                                     /\ Missing \notin {in.apiKey, in.fragmentID, in.secret}}
NextConnect ==
  \/ connect("c1")
  \/ \E in \in Credentials : connectSend("c1", in)
  \/ connectAnswer("c1")
  \/ AuthTimed("c1")
  \/ AuthDropped("c1")
  \/ ClientDrop("c1")
  \/ \E in \in OneFragAuth : AuthWith("c2", in)
  \/ \E c \in StreamConns :
        \/ Accept(c)
        \/ Add1(c, {IdFor(c)})
        \/ Add2(c)
        \/ ReceiveDropped(c)

SpecConnect == Init /\ [][NextConnect]_vars

\* ------------------------------------------------------------ fragment requests
\* requestFragment, main.py 192-214: the body is validated, then the
\* metadata is searched for an unapproved request of the caller's IP.
Pending(sys, ip) == {f \in DOMAIN sys : sys[f].originalIP = ip /\ ~sys[f].approved}

requestCheck(r, valid) ==
  /\ requests[r].pc = "idle"
  /\ requests' = [requests EXCEPT ![r] =
        IF systemLock THEN [@ EXCEPT !.pc = "done", !.code = 503]
        ELSE IF ~valid THEN [@ EXCEPT !.pc = "done", !.code = 400]
        ELSE IF Pending(system, ReqIP(r)) # {} THEN [@ EXCEPT !.pc = "done", !.code = 403]
        ELSE [@ EXCEPT !.pc = "create"]]
  /\ UNCHANGED <<env, system, file, connections, connected, pc, exit, sent, closeMsg,
                 locals, nframes, history, timing, admin, client, parsed, systemLock>>

\* Lines 216-233: a fresh ID (uuid4) gets the request's metadata, unapproved,
\* and the metadata is saved.
requestCreate(r, f) ==
  /\ requests[r].pc = "create"
  /\ f \notin DOMAIN system
  /\ system' = [g \in DOMAIN system \cup {f} |->
        IF g = f
        THEN [secret |-> encodeToSHA256(SecretOf(f)), approved |-> FALSE,
              originalIP |-> ReqIP(r), knownIPs |-> {ReqIP(r)}, lastUpdate |-> None]
        ELSE system[g]]
  /\ requests' = [requests EXCEPT ![r] = [@ EXCEPT !.pc = "done", !.id = f, !.code = 200]]
  /\ UNCHANGED <<env, file, connections, connected, pc, exit, sent, closeMsg,
                 locals, nframes, history, timing, admin, client, parsed, systemLock>>

\* Three requests, two of them from one IP, and an administrator who
\* approves.
RequestIDs == {"F1", "F2", "F3"}
InitRequests ==
  /\ env = Roomy(1)
  /\ system = [f \in {} |-> <<>>]
  /\ file = [f \in RequestIDs |-> None]
  /\ InitProcess

NextRequests ==
  \/ \E r \in Reqs, valid \in BOOLEAN : requestCheck(r, valid)
  \/ \E r \in Reqs, f \in RequestIDs : requestCreate(r, f)
  \/ \E f \in RequestIDs : approveRequest(f)

SpecRequests == InitRequests /\ [][NextRequests]_vars

\* ------------------------------------------------------------ HTTP write and delete
\* A POST /api/writeFragment as it reaches the server: the APIKey header,
\* whether the body is JSON of the schema (fragmentID, secret: str; data:
\* dict), and the three values.
HttpInputs ==
  [apiKey : {"K", "wrong"}, schema : BOOLEAN,
   fragmentID : Frags \cup {UnknownFrag}, secret : {"s1", "s2"}, data : {"d1"}]

\* beforeReq (main.py 23-26), the decorators (decorators.py 31-41, 56-98) and
\* writeFragment lines 246-257: the answer of a request that is refused, 0
\* for one that goes on to write.
writeRefusal(in, sys, lock) ==
  IF lock THEN 503
  ELSE IF env.APIKey # None /\ in.apiKey # env.APIKey THEN 401
  ELSE IF ~in.schema THEN 400
  ELSE IF in.fragmentID \notin DOMAIN sys THEN 400
  ELSE IF ~verifySHA256(in.secret, sys[in.fragmentID].secret) THEN 401
  ELSE IF ~sys[in.fragmentID].approved THEN 403
  ELSE 0

writeCheck(r, in) ==
  /\ requests[r].pc = "idle"
  /\ LET code == writeRefusal(in, system, systemLock) IN
     requests' = [requests EXCEPT ![r] =
        IF code # 0 THEN [@ EXCEPT !.pc = "done", !.code = code]
        ELSE [@ EXCEPT !.pc = "store", !.id = in.fragmentID, !.data = in.data]]
  /\ UNCHANGED <<env, system, file, connections, connected, pc, exit, sent, closeMsg,
                 locals, nframes, history, timing, admin, client, parsed, systemLock>>

\* writeFragment lines 259-268: the document is stored, then the metadata is
\* updated (KeyError, answered 500, when the fragment has gone) and saved.
writeStore(r) ==
  /\ requests[r].pc = "store"
  /\ LET f == requests[r].id IN
     /\ file' = [file EXCEPT ![f] = requests[r].data]
     /\ expected' = [expected EXCEPT ![f] = requests[r].data]
     /\ IF f \in DOMAIN system
        THEN /\ system' = [system EXCEPT ![f] =
                   [@ EXCEPT !.lastUpdate = "now", !.knownIPs = @ \cup {ReqIP(r)}]]
             /\ requests' = [requests EXCEPT ![r] = [@ EXCEPT !.pc = "done", !.code = 200]]
        ELSE /\ UNCHANGED system
             /\ requests' = [requests EXCEPT ![r] = [@ EXCEPT !.pc = "done", !.code = 500]]
  /\ UNCHANGED <<env, connections, connected, pc, exit, sent, closeMsg, locals, nframes,
                 targets, got, pend, timing, admin, client, parsed, systemLock>>

\* /admin/deleteFragment, main.py 92-107, and /api/deleteFragment by the
\* owner, lines 406-424: the document is destroyed and the metadata entry
\* deleted.
destroyed(f) ==
  /\ file' = [file EXCEPT ![f] = None]
  /\ expected' = [expected EXCEPT ![f] = None]
  /\ system' = [g \in DOMAIN system \ {f} |-> system[g]]
  /\ UNCHANGED <<env, connections, connected, pc, exit, sent, closeMsg, locals, nframes,
                 targets, got, pend>>

deleteFragment(f) ==
  /\ f \in DOMAIN system
  /\ destroyed(f)
  /\ UNCHANGED <<timing, admin, elsewhere>>

\* beforeReq, the decorators and destroyFragment lines 412-415: the answer of
\* a POST /api/deleteFragment that is refused, 0 for one that deletes.
destroyRefusal(in, sys, lock) ==
  IF lock THEN 503
  ELSE IF env.APIKey # None /\ in.apiKey # env.APIKey THEN 401
  ELSE IF ~in.schema THEN 400
  ELSE IF in.fragmentID \notin DOMAIN sys THEN 400
  ELSE IF ~verifySHA256(in.secret, sys[in.fragmentID].secret) THEN 401
  ELSE 0

\* POST /api/deleteFragment, main.py 400-424, by the fragment's owner.
destroyFragment(r, in) ==
  /\ requests[r].pc = "idle"
  /\ LET code == destroyRefusal(in, system, systemLock) IN
     IF code # 0
     THEN /\ requests' = [requests EXCEPT ![r] = [@ EXCEPT !.pc = "done", !.code = code]]
          /\ UNCHANGED <<env, system, file, connections, connected, pc, exit, sent,
                         closeMsg, locals, nframes, history>>
     ELSE /\ requests' = [requests EXCEPT ![r] =
                 [@ EXCEPT !.pc = "done", !.id = in.fragmentID, !.code = 200]]
          /\ destroyed(in.fragmentID)
  /\ UNCHANGED <<timing, admin, client, parsed, systemLock>>

\* HTTP writers and an administrator who approves and deletes.
NextHttp ==
  \/ \E r \in Reqs, in \in HttpInputs : writeCheck(r, in)
  \/ \E r \in Reqs : writeStore(r)
  \/ \E f \in Frags : approveRequest(f)
  \/ \E f \in Frags : deleteFragment(f)

SpecHttp == Init /\ [][NextHttp]_vars

\* Isolation: c1 streams fragment F1 and c2 fragment F2; each writes,
\* closes, sends frames the protocol does not know, or drops.
FragFor(c) == IF c = "c1" THEN "F1" ELSE "F2"
OwnAuth(c) == {in \in GoodAuth : in.fragmentID = FragFor(c)}
IsolationInputs ==
  {in \in ActiveInputs :
      \/ in.k \in {"unparsable", "scalar"}
      \/ in.k = "object" /\ in.action \in {"close", "ping"} /\ in.data = Missing
      \/ in.k = "object" /\ in.action = "write" /\ in.data \in {"d1", NonObj}}

NextIsolation ==
  \E c \in StreamConns :
     \/ Accept(c)
     \/ \E in \in OwnAuth(c) : AuthWith(c, in)
     \/ Add1(c, {IdFor(c)})
     \/ Add2(c)
     \/ \E in \in IsolationInputs : ReceiveWith(c, in)
     \/ ReceiveDropped(c)
     \/ WRead(c)
     \/ WWrite(c)
     \/ MRead(c)
     \/ MWrite(c)
     \/ PushStart(c)
     \/ PushSend(c)
     \/ ClientDrop(c)

SpecIsolation == InitStream /\ [][NextIsolation]_vars

\* Deletion: streaming clients write while fragments are deleted by the
\* administrator or by their owner.
OwnerDeletes ==
  {in \in HttpInputs : in.apiKey = "K" /\ in.schema /\ in.fragmentID \in Frags}

NextDelete ==
  \/ \E c \in StreamConns : Accept(c)
  \/ \E c \in StreamConns : \E in \in GoodAuth : AuthWith(c, in)
  \/ \E c \in StreamConns : Add1(c, {IdFor(c)})
  \/ \E c \in StreamConns : Add2(c)
  \/ \E c \in StreamConns : \E in \in WriteInputs : ReceiveWith(c, in)
  \/ \E c \in StreamConns : WRead(c)
  \/ \E c \in StreamConns : WWrite(c)
  \/ \E c \in StreamConns : MRead(c)
  \/ \E c \in StreamConns : MWrite(c)
  \/ \E c \in StreamConns : PushStart(c)
  \/ \E c \in StreamConns : PushSend(c)
  \/ \E f \in Frags : deleteFragment(f)
  \/ \E in \in OwnerDeletes : destroyFragment("r1", in)

SpecDelete == InitStream /\ [][NextDelete]_vars

\* /admin/toggleLock, main.py 123-129.
toggleLock ==
  /\ systemLock' = ~systemLock
  /\ UNCHANGED <<env, system, file, connections, connected, pc, exit, sent, closeMsg,
                 locals, nframes, history, timing, admin, client, parsed, requests>>

\* Lock: one streaming client and one HTTP client write while the
\* administrator engages and releases the system lock.
LockWrites ==
  {in \in HttpInputs : in.apiKey = "K" /\ in.schema /\ in.fragmentID \in Frags}

NextLock ==
  \/ Accept("c1")
  \/ \E in \in GoodAuth : AuthWith("c1", in)
  \/ Add1("c1", {IdFor("c1")})
  \/ Add2("c1")
  \/ \E in \in WriteInputs : ReceiveWith("c1", in)
  \/ WRead("c1")
  \/ WWrite("c1")
  \/ MRead("c1")
  \/ MWrite("c1")
  \/ PushStart("c1")
  \/ PushSend("c1")
  \/ \E in \in LockWrites : writeCheck("r1", in)
  \/ writeStore("r1")
  \/ toggleLock

SpecLock == InitStream /\ [][NextLock]_vars

\* DataStore.writeFragment, database.py 28-31 and 39-41: loading the file
\* raises (the file is unreadable, or is read while another writer has it
\* truncated); the exception is logged, False is returned and nothing is
\* stored.  main.py 375 drops the result and goes on with the metadata
\* (KeyError when the fragment has been deleted).
WFail(c) ==
  /\ pc[c] = "wRead"
  /\ IF fragID[c] \in DOMAIN system
     THEN /\ system' = [system EXCEPT ![fragID[c]] =
                 [@ EXCEPT !.lastUpdate = "now", !.knownIPs = @ \cup {IPOf(c)}]]
          /\ pc' = [pc EXCEPT ![c] = "mRead"]
          /\ UNCHANGED <<exit, connected, locals, targets, got, pend>>
     ELSE /\ connected' = [connected EXCEPT ![c] = FALSE]
          /\ Leave(c, "crash")
          /\ UNCHANGED system
  /\ UNCHANGED <<env, file, connections, sent, closeMsg, nframes, expected>>
  /\ UNCHANGED <<timing, admin, elsewhere>>

\* Failing store: c1 writes to F1, c2 listens on F1, and a store write may
\* fail.
NextFail ==
  \/ \E c \in StreamConns : Accept(c)
  \/ \E c \in StreamConns : \E in \in OneFragAuth : AuthWith(c, in)
  \/ \E c \in StreamConns : Add1(c, {IdFor(c)})
  \/ \E c \in StreamConns : Add2(c)
  \/ \E in \in WriteInputs : ReceiveWith("c1", in)
  \/ WRead("c1")
  \/ WWrite("c1")
  \/ WFail("c1")
  \/ MRead("c1")
  \/ MWrite("c1")
  \/ PushStart("c1")
  \/ PushSend("c1")

SpecFail == InitStream /\ [][NextFail]_vars

\* ------------------------------------------------------------ properties
Count(seq, x) == Cardinality({i \in DOMAIN seq : seq[i] = x})
IsWriteFrame(m) == "event" \in DOMAIN m /\ m.event = "write"
IsErrorFrame(m) == DOMAIN m = {"error"}
WriteFrames(c) == SelectSeq(sent[c], IsWriteFrame)
Last(seq) == seq[Len(seq)]

\* C1. When the broadcast of a write accepted from session c has returned,
\* every session that was registered under c's fragment with a connected
\* transport when the write was accepted, and whose transport is still
\* connected, has been sent the write-event frame exactly once by that
\* broadcast (the writer included).
C1_WriteReachesEverySession ==
  \A c \in Conns : pend[c] # None =>
     \A w \in targets[c] : connected[w] => Count(got[c], w) = 1

\* C2. Once a writeFragment(F, d) call has returned, the store's document for
\* F is d until the next write to F returns, whatever other handlers write.
C2_StoreHoldsLastWrite ==
  \A f \in Frags : expected[f] # None => file[f] = expected[f]

BothWrote(f) ==
  \A c \in StreamConns : /\ fragID[c] = f /\ connected[c]
                         /\ pc[c] = "active" /\ pend[c] # None

\* C3. When two connected sessions on the same fragment have each written and
\* both writes and both broadcasts have completed, the last write-event frame
\* each session on the fragment received carries the document the store holds.
C3_LastFrameIsStoredValue ==
  \A f \in Frags : BothWrote(f) =>
     \A w \in GroupLive(connections, connected, f) :
        WriteFrames(w) # <<>> => Last(WriteFrames(w)).data = file[f]

\* C4. When a broadcast ended on a failed send to one session, every other
\* session that was registered and connected when the write was accepted and is
\* still connected has been sent the frame, and the writer is back in its
\* serve loop without an error frame.
C4_SendFailureIsIsolated ==
  \A c \in Conns : pend[c] = "sendfail" =>
     /\ \A w \in targets[c] : connected[w] => Count(got[c], w) >= 1
     /\ pc[c] = "active"
     /\ \A i \in DOMAIN sent[c] : ~IsErrorFrame(sent[c][i])

\* C5. Two connected sessions of one fragment never hold the same connection
\* ID, and every connected session in its serve loop still owns the registry
\* entry it registered (no registration replaced it).
C5_RegistrationsGetDistinctIDs ==
  /\ \A c \in Conns, d \in Conns :
        (/\ c # d /\ connected[c] /\ connected[d]
         /\ connID[c] # None /\ connID[d] # None /\ fragID[c] = fragID[d])
        => connID[c] # connID[d]
  /\ \A c \in Conns : (pc[c] = "active" /\ connected[c]) =>
        /\ <<fragID[c], connID[c]>> \in Entries(connections)
        /\ WsOf(connections[fragID[c]], connID[c]) = c

\* C6. On every reachable registry and for every (fragment, connection ID):
\* unregistering a registered entry returns true and removes exactly that
\* entry; unregistering it again returns false and changes nothing; and
\* unregistering an entry that is not registered returns false and changes
\* nothing.
C6_UnregisterIsIdempotent ==
  \A f \in Frags, id \in IDs :
     LET r1 == removeConnection(connections, f, id)
         r2 == removeConnection(r1.conns, f, id)
     IN /\ <<f, id>> \in Entries(connections) =>
              /\ r1.ret = TRUE
              /\ Entries(r1.conns) = Entries(connections) \ {<<f, id>>}
              /\ Registered(r1.conns) =
                    Registered(connections) \ {WsOf(connections[f], id)}
        /\ <<f, id>> \notin Entries(connections) =>
              /\ r1.ret = FALSE
              /\ r1.conns = connections
        /\ r2.ret = FALSE
        /\ r2.conns = r1.conns

\* A session has closed itself, which unregistered it, and others remain.
C6_Witness ==
  \E c \in Conns : /\ exit[c] = "closed"
                   /\ c \notin Registered(connections)
                   /\ Entries(connections) # {}

RegisteredCount == Cardinality(Entries(connections))

\* C7. A connection accepted while the number of registered sessions equals
\* the global ceiling is closed with a reason, receives no frame and changes
\* no registration; a refused connection is never registered.
C7_RefusedAtGlobalCeiling ==
  /\ [][\A c \in Conns :
          (/\ pc[c] = "idle" /\ pc'[c] # "idle"
           /\ RegisteredCount = env.StreamCentreMaxConnections)
          => /\ pc'[c] = "done"
             /\ exit'[c] = "refused"
             /\ closeMsg'[c] # None
             /\ ~connected'[c]
             /\ sent'[c] = <<>>
             /\ connections' = connections]_vars
  /\ [](\A c \in Conns : exit[c] = "refused" =>
          /\ c \notin Registered(connections)
          /\ fragID[c] = None
          /\ sent[c] = <<>>)

\* A connection was refused with the registry at its ceiling.
C7_Witness ==
  \E c \in Conns : /\ exit[c] = "refused"
                   /\ closeMsg[c] = "Max connections reached."
                   /\ RegisteredCount = env.StreamCentreMaxConnections

GroupSize(f) == Cardinality({e \in Entries(connections) : e[1] = f})

\* C8. A correctly authenticated attempt for a fragment whose group size equals
\* the per-fragment ceiling is answered with an error frame, closed and not
\* registered; one for a fragment whose group is below the ceiling, with the
\* registry below the global ceiling, is answered with the success frame and
\* goes on to register.
C8_PerFragmentCeiling ==
  [][\A c \in Conns : \A in \in GoodAuth :
        (pc[c] = "auth" /\ pc'[c] # "auth" /\ AuthWith(c, in)) =>
          /\ GroupSize(in.fragmentID) = env.StreamCentreMaxStreamConnections =>
                /\ pc'[c] = "done"
                /\ exit'[c] = "fragfull"
                /\ IsErrorFrame(Last(sent'[c]))
                /\ closeMsg'[c] # None
                /\ ~connected'[c]
                /\ connections' = connections
          /\ (/\ GroupSize(in.fragmentID) < env.StreamCentreMaxStreamConnections
              /\ RegisteredCount < env.StreamCentreMaxConnections) =>
                /\ pc'[c] = "add1"
                /\ fragID'[c] = in.fragmentID
                /\ Last(sent'[c]) = successEvent(ConnectedMsg(in.fragmentID))
                /\ connected'[c]]_vars

\* One attempt was rejected at a full fragment while sessions are registered
\* under both fragments, both approved.
C8_Witness ==
  \E c \in Conns, d \in Conns, e \in Conns :
     /\ exit[c] = "fragfull"
     /\ closeMsg[c] = "Max connections for fragment stream reached."
     /\ pc[d] = "active" /\ pc[e] = "active"
     /\ fragID[d] = "F1" /\ fragID[e] = "F2"
     /\ system["F2"].approved
     /\ GroupSize("F1") = env.StreamCentreMaxStreamConnections

\* C9. No session is registered under a fragment that is not approved.
C9_NoSessionOnUnapprovedFragment ==
  \A f \in Frags : GroupSize(f) > 0 => (f \in DOMAIN system /\ system[f].approved)

BadCredentials(in) ==
  \/ in.k \in {"none", "unparsable"}
  \/ /\ in.k = "object"
     /\ \/ \E v \in {in.apiKey, in.fragmentID, in.secret} : v \in {Missing, NonStr}
        \/ in.apiKey # env.APIKey
        \/ in.fragmentID \notin DOMAIN system
        \/ in.secret # SecretOf(in.fragmentID)

\* C10. Every credentials frame that fails authentication (none within the
\* timeout, unparsable, a field missing or not a string, a wrong API key, an
\* unknown fragment, a wrong secret) is answered with exactly one error frame
\* and ends the handler with the transport closed; the registry is unchanged
\* and the session is never registered.
C10_AuthFailureTerminates ==
  /\ [][\A c \in Conns : \A in \in AuthInputs :
          (pc[c] = "auth" /\ pc'[c] # "auth" /\ BadCredentials(in) /\ AuthWith(c, in)) =>
             /\ pc'[c] = "done"
             /\ exit'[c] = "authfail"
             /\ ~connected'[c]
             /\ Len(sent'[c]) = Len(sent[c]) + 1
             /\ IsErrorFrame(Last(sent'[c]))
             /\ connections' = connections
             /\ c \notin Registered(connections')]_vars
  /\ [](\A c \in Conns : exit[c] = "authfail" =>
          /\ c \notin Registered(connections)
          /\ pc[c] = "done")

\* Three connections failed authentication, each with a different error.
C10_Witness ==
  /\ \A c \in Conns : exit[c] = "authfail" /\ IsErrorFrame(Last(sent[c]))
  /\ Cardinality({Last(sent[c]).error : c \in Conns}) = 3

\* C11. A connection that presents correct credentials for an approved
\* fragment whose group is below the per-fragment ceiling is sent the success
\* event and goes on to register; and every registration that was started
\* ends with the session in its serve loop, registered under exactly the
\* fragment it authenticated for.
C11_GoodCredentialsReachActive ==
  [][\A c \in Conns :
        /\ \A in \in GoodAuth :
              (/\ pc[c] = "auth" /\ pc'[c] # "auth"
               /\ system[in.fragmentID].approved
               /\ GroupSize(in.fragmentID) < env.StreamCentreMaxStreamConnections
               /\ AuthWith(c, in))
              => /\ Last(sent'[c]) = successEvent(ConnectedMsg(in.fragmentID))
                 /\ pc'[c] = "add1"
                 /\ fragID'[c] = in.fragmentID
        /\ (pc[c] \in {"add1", "add2"} /\ pc'[c] # pc[c])
              => /\ fragID'[c] = fragID[c]
                 /\ pc'[c] \in {"add2", "active"}
                 /\ pc'[c] = "active" =>
                       /\ <<fragID[c], connID[c]>> \in Entries(connections')
                       /\ WsOf(connections'[fragID[c]], connID[c]) = c]_vars

\* C12 (as claimed). Of two frames received one after the other, the first
\* processed: when the second was sent 0.1 after the first it is discarded, and
\* when it was sent 0.5 or more after the first it is processed.
C12_RateGateBySendTimes ==
  \A c \in Conns : \A i \in DOMAIN rlog[c] :
     (i + 1 \in DOMAIN rlog[c] /\ rlog[c][i].ok) =>
        /\ rlog[c][i + 1].at - rlog[c][i].at = 1 => ~rlog[c][i + 1].ok
        /\ rlog[c][i + 1].at - rlog[c][i].at >= GateTicks => rlog[c][i + 1].ok

\* C12 (amended). The gate is measured when the serve loop reads a frame: a
\* frame read less than 0.5 after the handler read the previous processed
\* frame (or became Active) is discarded with no response and no state
\* change, and a frame read 0.5 or more after it is processed and becomes the
\* new reference; so of two frames read 0.1 apart only the first is processed,
\* and processed frames are read at least 0.5 apart.
C12_RateGateByReadTimes ==
  /\ [][\A c \in Conns : Len(inbox'[c]) < Len(inbox[c]) =>
          IF now - lastRecv[c] < GateTicks
          THEN /\ sent' = sent /\ file' = file /\ system' = system
               /\ connections' = connections /\ connected' = connected
               /\ pc' = pc /\ lastRecv' = lastRecv
          ELSE /\ lastRecv'[c] = now
               /\ sent'[c] # sent[c] \/ pc'[c] # pc[c]]_vars
  /\ [](\A c \in Conns : \A i \in DOMAIN rlog[c] : \A j \in DOMAIN rlog[c] :
          (i < j /\ rlog[c][i].ok /\ rlog[c][j].ok) =>
             rlog[c][j].read - rlog[c][i].read >= GateTicks)

\* A frame was processed, the next one, sent and read 0.1 later, was
\* discarded, and a third one read 0.5 after the first was processed.
C12_Witness ==
  /\ Len(rlog["c1"]) = 3
  /\ rlog["c1"][1].ok /\ ~rlog["c1"][2].ok /\ rlog["c1"][3].ok
  /\ rlog["c1"][2].at - rlog["c1"][1].at = 1
  /\ rlog["c1"][2].read - rlog["c1"][1].read = 1
  /\ rlog["c1"][3].read - rlog["c1"][1].read = GateTicks

IsViolation(in) ==
  \/ in.k # "object"
  \/ in.action \in {Missing, "ping"}
  \/ in.action = "write" /\ in.data \notin Docs

\* C13. Every accepted frame that is unparsable, or valid JSON of any kind
\* without an action, or names an unknown action, or is a write whose data is
\* missing or not an object, is answered with exactly one error frame; the
\* session stays in its serve loop and registered, and the store is unchanged.
C13_ViolationsAreNonFatal ==
  [][\A c \in Conns : (pc[c] = "active" /\ nframes' # nframes) =>
        \A in \in ActiveInputs : (IsViolation(in) /\ ReceiveWith(c, in)) =>
           /\ Len(sent'[c]) = Len(sent[c]) + 1
           /\ IsErrorFrame(Last(sent'[c]))
           /\ pc'[c] = "active"
           /\ connected'[c]
           /\ connections' = connections
           /\ file' = file
           /\ system' = system]_vars

ReadInputs == {in \in ActiveInputs : in.k = "object" /\ in.action = "read"}

WriteInProgress(f) == \E w \in Conns : fragID[w] = f /\ pc[w] \in {"wRead", "wWrite"}

\* C14. A read is answered to the requesting session only, with one read-event
\* frame carrying the document the store holds for its fragment; and when a
\* write of d to that fragment has returned and no later write to it has begun,
\* the frame carries d.
C14_ReadReturnsLastWrite ==
  [][\A c \in Conns : (pc[c] = "active" /\ nframes' # nframes) =>
        \A in \in ReadInputs : ReceiveWith(c, in) =>
           /\ sent'[c] = Append(sent[c], readEvent(file[fragID[c]]))
           /\ \A w \in Conns \ {c} : sent'[w] = sent[w]
           /\ (expected[fragID[c]] # None /\ ~WriteInProgress(fragID[c]))
                 => Last(sent'[c]) = readEvent(expected[fragID[c]])]_vars

\* C15. A close frame ends the requesting session's serve loop with its
\* transport closed and the session out of the registry, and every other
\* session that was registered and open is still registered and open.
C15_CloseActionClosesOnlyRequester ==
  [][\A c \in Conns : (pc[c] = "active" /\ nframes' # nframes) =>
        \A in \in CloseInputs : ReceiveWith(c, in) =>
           /\ pc'[c] = "done"
           /\ ~connected'[c]
           /\ c \notin Registered(connections')
           /\ \A w \in Conns \ {c} :
                 (connected[w] /\ w \in Registered(connections))
                    => (connected'[w] /\ w \in Registered(connections'))]_vars

\* C16. After a serve loop ended on a failed receive, the handler has exited
\* and the session's entry is no longer in the registry; and the step that
\* ends the loop leaves every other session's transport and entry alone.
C16_TransportFailureUnregisters ==
  /\ [](\A c \in Conns : (pc[c] = "done" /\ exit[c] = "dropped")
           => c \notin Registered(connections))
  /\ [][\A c \in Conns : (pc[c] = "active" /\ ~connected[c] /\ pc'[c] = "done") =>
          \A w \in Conns \ {c} :
             /\ connected'[w] = connected[w]
             /\ (w \in Registered(connections)) = (w \in Registered(connections'))]_vars

LiveEntries == {e \in Entries(connections) : connected[WsOf(connections[e[1]], e[2])]}
LiveCount == Cardinality(LiveEntries)
LiveGroupSize(f) == Cardinality({e \in LiveEntries : e[1] = f})

\* C17. Entries of disconnected sessions are not counted at admission: a
\* connection is refused at the global ceiling only when that many sessions
\* with a live transport are registered, and a correctly authenticated attempt
\* is refused at the per-fragment ceiling only when that many live sessions are
\* registered under the fragment.
C17_StaleEntriesNeverRefuse ==
  [][\A c \in Conns :
        /\ (/\ pc[c] = "idle" /\ pc'[c] = "done"
            /\ closeMsg'[c] = "Max connections reached.")
              => LiveCount >= env.StreamCentreMaxConnections
        /\ (pc[c] = "auth" /\ pc'[c] = "done" /\ exit'[c] = "fragfull") =>
              \A in \in GoodAuth : AuthWith(c, in) =>
                 LiveGroupSize(in.fragmentID) >= env.StreamCentreMaxStreamConnections]_vars

SameEntry(e) ==
  /\ e \in Entries(connections')
  /\ WsOf(connections'[e[1]], e[2]) = WsOf(connections[e[1]], e[2])

C19_CloseFragmentEmptiesGroup ==
  /\ [][(admin.pc = "closeLoop" /\ admin'.pc = "idle") =>
          /\ \A i \in DOMAIN getConnections(connections, admin.f) :
                ~connected'[connections[admin.f][i].ws]
          /\ admin.f \notin DOMAIN connections'
          /\ GroupSize(admin.f)' = 0]_vars
  /\ [][(/\ admin'.op = "closeFragment"
          /\ (closeFragmentLoop \/ \E f \in Frags : closeFragmentStream(f))) =>
          \A e \in Entries(connections) :
             (e[1] # admin'.f /\ connected[WsOf(connections[e[1]], e[2])])
                => /\ SameEntry(e)
                   /\ connected'[WsOf(connections[e[1]], e[2])]]_vars

Bearers(id) == {e \in LiveEntries : e[2] = id}

\* A call of close that matches no live session returns false and neither
\* closes a transport nor removes the entry of a live session.
NoMatchIsHarmless(r) ==
  /\ r.ret = FALSE
  /\ r.closed = {}
  /\ \A e \in LiveEntries :
        /\ e \in Entries(r.conns)
        /\ WsOf(r.conns[e[1]], e[2]) = WsOf(connections[e[1]], e[2])

CloseMisses ==
  /\ \A f \in Frags \cup {UnknownFrag}, id \in IDs :
        <<f, id>> \notin LiveEntries => NoMatchIsHarmless(close(connections, connected, f, id))
  /\ \A f \in Frags \cup {UnknownFrag} :
        (\A e \in LiveEntries : e[1] # f) => NoMatchIsHarmless(close(connections, connected, f, None))
  /\ \A id \in IDs \cup {None} :
        Bearers(id) = {} => NoMatchIsHarmless(close(connections, connected, None, id))

\* As CloseMisses, except that close(fragmentID) on a fragment whose group is
\* in the registry with no session in it returns true and drops the group.
CloseMissesOrEmptyGroup ==
  /\ \A f \in Frags \cup {UnknownFrag}, id \in IDs :
        <<f, id>> \notin LiveEntries => NoMatchIsHarmless(close(connections, connected, f, id))
  /\ \A f \in Frags \cup {UnknownFrag} :
        (\A e \in LiveEntries : e[1] # f) =>
           LET r == close(connections, connected, f, None) IN
           IF f \in DOMAIN connections /\ connections[f] = <<>>
           THEN /\ r.ret = TRUE
                /\ f \notin DOMAIN r.conns
                /\ NoMatchIsHarmless([r EXCEPT !.ret = FALSE])
           ELSE NoMatchIsHarmless(r)
  /\ \A id \in IDs \cup {None} :
        Bearers(id) = {} => NoMatchIsHarmless(close(connections, connected, None, id))

C21_ShutdownClosesEverySession ==
  [][(admin'.op = "shutdown" /\ admin'.pc = "idle"
      /\ (shutdownStreamCentre \/ shutdownLoop)) =>
        \A w \in admin'.before :
           /\ ~connected'[w]
           /\ w \notin Registered(connections')]_vars

\* C22. No two handlers are inside a send on the same session's transport at
\* the same time.
C22_SendsAreSerialized ==
  \A a \in Conns : \A b \in Conns \ {a} :
     ~(/\ pc[a] = "pushSending" /\ pc[b] = "pushSending"
       /\ fragID[a] = fragID[b]
       /\ SendingTo(a) = SendingTo(b))

\* C23. No broadcast ends because the group it iterates was changed or
\* removed by another handler meanwhile, no handler fails on a group or a
\* metadata entry that another handler removed, and every session in its
\* serve loop with a live transport is still registered.
C23_RegistryAccessIsExclusive ==
  \A c \in Conns :
     /\ pend[c] # "changed"
     /\ exit[c] # "crash"
     /\ (pc[c] = "active" /\ connected[c]) => c \in Registered(connections)

\* C24. A session whose transport was closed by an admin request (close by
\* IDs, close of its fragment, shutdown) eventually has its handler out of the
\* serve loop and no entry in the registry.
C24_AdminCloseEndsSession ==
  \A c \in StreamConns :
     (admin.pc = "idle" /\ c \in admin.ws)
        ~> (pc[c] = "done" /\ c \notin Registered(connections))

\* C25. StreamMessage classifies a frame by a fixed precedence: an `error`
\* key makes the type "error" and the message its value; otherwise an
\* `event` key makes the type the event's name; otherwise the type is
\* "unknown".  A `message` key then sets the message and turns "unknown"
\* into "message".  A `data` key is carried through whatever the type, and
\* a buffer that is no JSON raises.
ByPrecedence(o) ==
  LET first == IF Has(o, "error") THEN [type |-> "error", message |-> o.error]
               ELSE IF Has(o, "event") THEN [type |-> o.event, message |-> None]
               ELSE [type |-> "unknown", message |-> None]
      second == IF ~Has(o, "message") THEN first
                ELSE [type    |-> IF first.type = "unknown" THEN "message" ELSE first.type,
                      message |-> o.message]
  IN  [type |-> second.type, message |-> second.message,
       data |-> IF Has(o, "data") THEN o.data ELSE None, raised |-> FALSE]
Recovered(type, message, data) ==
  parsed.msg = [type |-> type, message |-> message, data |-> data, raised |-> FALSE]
C27_PingAcknowledged ==
  \A c \in Conns :
     (client[c].last = "ping" /\ pc[c] = "active" /\ connected[c])
        => /\ client[c].ret.ok
           /\ client[c].ret.type = "success"

\* C28. When Stream.connect() has returned, it returned True if and only
\* if the frame it received in answer to its credentials is a success
\* event, which the server sent because the credentials passed; and when it
\* returned an error the Stream is disconnected: conn is None and status()
\* is false.
SuccessSentTo(c) ==
  \E i \in DOMAIN sent[c] : \E f \in Frags : sent[c][i] = successEvent(ConnectedMsg(f))
C28_ConnectOutcome ==
  \A c \in Conns :
     client[c].last = "connect" =>
        /\ client[c].ret.ok <=> client[c].ret.type = "success"
        /\ client[c].ret.ok => SuccessSentTo(c)
        /\ ~client[c].ret.ok => (~client[c].conn /\ ~status(c))
C28_Witness ==
  /\ client["c1"].last = "connect"
  /\ ~client["c1"].ret.ok
  /\ client["c1"].ret.type = "error"
  /\ client["c1"].ret.message = "Authorisation failed."
  /\ ~client["c1"].conn

\* C29. The message Stream.write(d) returns is the server's acknowledgment
\* of this write, the write event carrying d, and the message
\* Stream.read() returns is the read event answering this read, also when
\* another session of the fragment writes and its broadcast reaches this
\* client in between.
C29_ResponsePairsWithRequest ==
  \A c \in Conns :
     /\ (client[c].last = "write" /\ client[c].ret.ok)
           => (client[c].ret.type = "write" /\ client[c].ret.data = client[c].arg)
     /\ (client[c].last = "read" /\ client[c].ret.ok)
           => client[c].ret.type = "read"

\* C30. At any time at most one unapproved fragment request exists per
\* originating IP: a request from an IP that has an unapproved request is
\* refused and creates no metadata entry, also when two requests of the
\* same IP are handled concurrently.
C30_OnePendingRequestPerIP ==
  \A r \in Reqs : Cardinality(Pending(system, ReqIP(r))) <= 1

\* C31. The rate gate measures only against the previous accepted frame: a
\* frame of an Active session is discarded only if an earlier accepted frame
\* of that session was read less than 0.5 time units before it, so the first
\* frame after activation is processed however soon it arrives.
C31_GateOnlyAfterAcceptedFrame ==
  \A c \in Conns : \A j \in DOMAIN rlog[c] :
     ~rlog[c][j].ok =>
        \E i \in DOMAIN rlog[c] :
           /\ i < j
           /\ rlog[c][i].ok
           /\ rlog[c][j].read - rlog[c][i].read < GateTicks

\* C32. While streaming is disabled every connection that is accepted is
\* closed at once with the reason "Fragment Stream API unavailable.": no
\* frame is sent to it, its handler ends without reading, and it is never
\* registered.
C32_DisabledRefusesEveryone ==
  env.StreamCentreEnabled # "True" =>
     \A c \in Conns :
        /\ sent[c] = <<>>
        /\ c \notin Registered(connections)
        /\ ~connected[c]
        /\ pc[c] \in {"idle", "done"}
        /\ pc[c] = "done" => /\ exit[c] = "refused"
                             /\ closeMsg[c] = "Fragment Stream API unavailable."
C32_Witness ==
  /\ env.StreamCentreEnabled = "False"
  /\ \A c \in Conns : /\ pc[c] = "done"
                      /\ exit[c] = "refused"
                      /\ closeMsg[c] = "Fragment Stream API unavailable."

C34_GroupWithinCeiling ==
  \A f \in Frags : LiveGroupSize(f) <= env.StreamCentreMaxStreamConnections

\* C36. In every reachable state the number of sessions registered with a
\* connected transport is at most the global ceiling, also when several
\* connections pass the admission gate and authenticate concurrently.
C36_RegistryWithinCeiling ==
  LiveCount <= env.StreamCentreMaxConnections

\* C35. The HTTP write endpoint validates, then stores: a request goes on
\* to store exactly when its fragment exists, its secret verifies and the
\* fragment is approved; the validation changes nothing, a request answered
\* 400, 401 or 403 has changed neither the store nor the metadata, and only
\* the storing step of a validated request changes them.
ValidWrite(in) ==
  /\ in.apiKey = env.APIKey
  /\ in.schema
  /\ in.fragmentID \in DOMAIN system
  /\ system[in.fragmentID].secret = encodeToSHA256(in.secret)
  /\ system[in.fragmentID].approved
StepOf(c) ==
  \/ pc'[c] # pc[c]
  \/ connected'[c] # connected[c]
  \/ pushIdx'[c] # pushIdx[c]
  \/ sent'[c] # sent[c]
C37_FragmentsAreIsolated ==
  [][\A c \in Conns : \A w \in Conns :
        (/\ fragID[c] \in Frags /\ fragID[w] \in Frags /\ fragID[c] # fragID[w]
         /\ pc[w] = "active" /\ connected[w] /\ w \in Registered(connections)
         /\ StepOf(c) /\ pc'[w] = pc[w])
           => /\ sent'[w] = sent[w]
              /\ connected'[w]
              /\ w \in Registered(connections')
              /\ closeMsg'[w] = closeMsg[w]]_vars

\* c1 wrote d1 to F1 and was sent the write event; c2, Active on F2
\* throughout, was sent nothing after its success event.
C37_Witness ==
  /\ pc["c1"] = "active" /\ pc["c2"] = "active"
  /\ fragID["c1"] = "F1" /\ fragID["c2"] = "F2"
  /\ file["F1"] = "d1"
  /\ Len(sent["c1"]) = 3 /\ Last(sent["c1"]) = writeEvent("d1")
  /\ Len(sent["c2"]) = 2
  /\ connected["c2"] /\ "c2" \in Registered(connections)

\* C38. After a fragment is deleted, no later stream write re-creates a
\* stored document under the deleted identifier: a store write of a
\* session that loaded the file after the deletion (the fragment has no
\* metadata entry and the loaded file holds no document for it) leaves the
\* fragment without a document.
C38_DeletedStaysDeleted ==
  [][\A c \in Conns :
        (/\ pc[c] = "wWrite" /\ pc'[c] # "wWrite"
         /\ fragID[c] \in Frags
         /\ fragID[c] \notin DOMAIN system
         /\ snap[c][fragID[c]] = None)
           => file'[fragID[c]] = None]_vars

\* C39. While the system lock is engaged nothing is changed for a client
\* that is not the administrator, streaming sessions opened before the lock
\* included: no step of a session's handler takes a write frame up, and
\* none changes a stored document or the metadata.
C39_LockedMeansUnchanged ==
  [][systemLock =>
       \A c \in Conns :
          pc'[c] # pc[c] =>
             /\ ~(pc[c] = "active" /\ pc'[c] = "wRead")
             /\ file' = file
             /\ system' = system]_vars

\* C40. A write event for a document is broadcast on a fragment only if the
\* document was persisted: whenever the push of a session's write sends the
\* event to a session, the last document stored under the fragment is the
\* one the event carries, and it is in the store.
C40_BroadcastOnlyWhatWasStored ==
  [][\A c \in Conns : \A w \in Conns :
        (/\ pc[c] = "pushSend"
         /\ sent'[w] = Append(sent[w], writeEvent(wdata[c])))
           => /\ expected[fragID[c]] = wdata[c]
              /\ file[fragID[c]] = wdata[c]]_vars
====
